---- MODULE Spec2Model ----
(***************************************************************************)
(* Turbo: a remote code execution service.                                 *)
(*                                                                         *)
(* The module models                                                       *)
(*   - the queue / result bus (crates/turbo-db/src/queue.rs),              *)
(*   - the HTTP handler that pushes a job and waits for its result         *)
(*     (apps/turbo-server/src/api/handlers.rs),                            *)
(*   - the worker loop and execute_job with the compile cache              *)
(*     (apps/turbo-server/src/worker.rs),                                  *)
(*   - the sandbox's monitor_child (crates/turbo-box/src/linux.rs).        *)
(*                                                                         *)
(* Specifications:                                                         *)
(*   Spec       handlers and workers over the broker                       *)
(*   FairSpec   Spec with weak fairness of every task's next step          *)
(*   SpecJob    one worker running execute_job on every request shape      *)
(*   SpecCache  workers compiling the same cache key concurrently          *)
(*   SpecBox    one call of LinuxSandbox::run / monitor_child              *)
(***************************************************************************)
EXTENDS Integers, Sequences, FiniteSets, TLC

(***************************************************************************)
(* Bounds of the model.                                                    *)
(***************************************************************************)
NWorkers == 2
MaxJobs == 2
MaxTestcases == 2
MaxWrites == 3
PipeCap == 2
MaxOutputCap == 1

Workers == 1..NWorkers
JobIds == 1..MaxJobs
Handlers == 1..MaxJobs

(***************************************************************************)
(* Option<T>: None is the empty sequence, Some(x) the one-element one.     *)
(***************************************************************************)
None == <<>>
Some(x) == <<x>>
IsSome(o) == o # <<>>
Unwrap(o) == o[1]

(***************************************************************************)
(* Data model (crates/turbo-core/src/models.rs).                           *)
(***************************************************************************)
StageStatus ==
    {"Pending", "Running", "Success", "RuntimeError", "CompilationError",
     "TimeLimitExceeded", "MemoryLimitExceeded", "OutputLimitExceeded"}

StageResult(status, stdout, stderr, exit_code, signal, usage) ==
    [status |-> status, stdout |-> stdout, stderr |-> stderr,
     exit_code |-> exit_code, signal |-> signal,
     memory_usage |-> usage, cpu_time |-> usage, execution_time |-> usage]

JobResult(language, version, run, compile, testcases) ==
    [language |-> language, version |-> version,
     run |-> run, compile |-> compile, testcases |-> testcases]

TestcaseResult(id, passed, actual_output, run_details) ==
    [id |-> id, passed |-> passed, actual_output |-> actual_output,
     run_details |-> run_details]

stub_result == StageResult("Pending", "", "", None, None, None)

(***************************************************************************)
(* The runtimes directory <runtimes_dir>/<language>/<version>, read-only   *)
(* at job time: which of package.yaml, compile.sh and run.sh each          *)
(* installed language has.  "ghost" has no directory at all.               *)
(***************************************************************************)
Languages == {"ghost", "badyaml", "script", "compiled", "norun"}

RuntimeExists(lang) == lang # "ghost"
PackageYamlValid(lang) == lang \in {"script", "compiled", "norun"}
HasCompileScript(lang) == lang \in {"compiled", "norun"}
HasRunScript(lang) == lang \in {"script", "compiled"}

(***************************************************************************)
(* Requests.  A testcase is {id, expected_output?}; testcases is absent,   *)
(* present and empty, or present with up to MaxTestcases entries.          *)
(***************************************************************************)
Testcase(i) == [id |-> i, expected_output |-> None]

TestcaseLists == {[i \in 1..n |-> Testcase(i)] : n \in 0..MaxTestcases}

\* A file of the request: {name?, content, encoding?}.
FileRequest(name, content, encoding) ==
    [name |-> name, content |-> content, encoding |-> encoding]

Requests ==
    [language : Languages,
     version : {None},
     files : {<<FileRequest(None, "src", None)>>},
     testcases : {None} \cup {Some(t) : t \in TestcaseLists}]

Job(id, request) == [id |-> id, request |-> request]

VersionOrLatest(req) == IF IsSome(req.version) THEN Unwrap(req.version) ELSE "latest"

VersionOrDefault(req) == IF IsSome(req.version) THEN Unwrap(req.version) ELSE ""

\* file.name.as_deref().unwrap_or("main")
FileName(file) == IF IsSome(file.name) THEN Unwrap(file.name) ELSE "main"

(***************************************************************************)
(* calculate_job_hash: SHA-256 over the bytes of language, version-or-     *)
(* "latest", the compile script and, for the files sorted by name, name-   *)
(* or-"main" and content, fed to the hasher one after the other.  The      *)
(* digest is represented by the byte string it is computed from (SHA-256   *)
(* taken as collision free).  The compile script is a function of the      *)
(* language in a read-only runtimes directory.                             *)
(***************************************************************************)
CompileScriptContent(lang) == IF HasCompileScript(lang) THEN "sh" ELSE ""

\* The order of Option<String> on the names in use: None first, then the
\* strings in byte order.
NameOrder == <<None, Some("a"), Some("ab"), Some("main")>>

\* files.sort_by(|a, b| a.name.cmp(&b.name)): a stable sort.
RECURSIVE SortByName(_)
SortByName(files) ==
    IF files = <<>> THEN <<>>
    ELSE LET Rank(name) == CHOOSE r \in 1..Len(NameOrder) : NameOrder[r] = name
             i == CHOOSE k \in 1..Len(files) :
                    /\ \A j \in 1..Len(files) :
                          Rank(files[k].name) <= Rank(files[j].name)
                    /\ \A j \in 1..(k - 1) :
                          Rank(files[j].name) # Rank(files[k].name)
         IN <<files[i]>> \o SortByName(SubSeq(files, 1, i - 1) \o
                                       SubSeq(files, i + 1, Len(files)))

RECURSIVE HashFiles(_)
HashFiles(files) ==
    IF files = <<>> THEN ""
    ELSE FileName(Head(files)) \o Head(files).content \o HashFiles(Tail(files))

calculate_job_hash(req) ==
    req.language \o VersionOrLatest(req) \o CompileScriptContent(req.language)
        \o HashFiles(SortByName(req.files))

CacheKeys == {calculate_job_hash(r) : r \in {q \in Requests : HasCompileScript(q.language)}}

(***************************************************************************)
(* Directories.  A directory is the set of its files, a file is a name     *)
(* with a content, and no two files of a directory have the same name.     *)
(* The files of a job's working directory are the request's files written  *)
(* by execute_job, the artifact a successful compile.sh leaves, and the    *)
(* .touch sentinel linked in from a cache entry.                           *)
(***************************************************************************)
File(name, content) == [name |-> name, content |-> content]

FileNames(dir) == {f.name : f \in dir}

FileAt(dir, name) == CHOOSE f \in dir : f.name = name

\* fs::write, fs::copy, and fs::hard_link with its fallback to fs::copy:
\* afterwards the directory holds f, in place of any file of that name.
WriteFile(dir, f) == {g \in dir : g.name # f.name} \cup {f}

\* execute_job, lines 60-65: the request's files, written in order.
RECURSIVE WriteFiles(_, _)
WriteFiles(dir, files) ==
    IF files = <<>> THEN dir
    ELSE WriteFiles(WriteFile(dir, File(FileName(Head(files)), Head(files).content)),
                    Tail(files))

SourceFiles(req) == WriteFiles({}, req.files)
ArtifactFiles == {File("main.out", "bin")}
TouchFile == File(".touch", "")

(***************************************************************************)
(* What LinuxSandbox::run can give back to execute_job: Ok(StageResult)    *)
(* with one of the four statuses monitor_child sets, Err (apply_limits,   *)
(* spawn or wait failed), or no return at all.                            *)
(***************************************************************************)
\* How the child ended, as child.wait() reports it: exit code 0 or 1, or
\* death by signal 9 or 11.  Exit classification of the child-exited
\* branch of monitor_child (linux.rs 306-315).
\* Without the signal 9 heuristic.
ExitStatus_NoOomHeuristic(fin) == IF fin = "exit0" THEN "Success" ELSE "RuntimeError"

ExitStatus(fin) ==
    IF fin = "sig9" THEN "MemoryLimitExceeded"
    ELSE IF fin = "exit0" THEN "Success"
    ELSE "RuntimeError"

ExitCode(fin) ==
    IF fin = "exit0" THEN Some(0) ELSE IF fin = "exit1" THEN Some(1) ELSE None

ExitSignal(fin) ==
    IF fin = "sig9" THEN Some("9") ELSE IF fin = "sig11" THEN Some("11") ELSE None

\* The StageResult of the child-exited branch (linux.rs 333-342).
ExitResult(fin, out, err) ==
    StageResult(ExitStatus(fin), out, err, ExitCode(fin), ExitSignal(fin), Some(0))

\* A timeout branch that reports the exit code of the killed child.
TimeoutResult_WithExitCode(out, err) ==
    StageResult("TimeLimitExceeded", out, err, Some(137), Some("SIGKILL"), Some(0))

\* The StageResult of the timeout branch (linux.rs 379-388).
TimeoutResult(out, err) ==
    StageResult("TimeLimitExceeded", out, err, None, Some("SIGKILL"), Some(0))

SandboxOk ==
    { ExitResult("exit0", "out", ""),
      ExitResult("exit1", "out", "err"),
      ExitResult("sig9", "", ""),
      TimeoutResult("", "err") }

Ok(r) == [kind |-> "ok", res |-> r]
RunErr == [kind |-> "err", res |-> stub_result]
RunHang == [kind |-> "hang", res |-> stub_result]

\* The outcomes of one sandbox.run under the behaviours F of the environment
\* and of the submitted program: "spawn" (run returns Err), "leak" (the
\* child exits and leaves a descendant holding the output pipes: the
\* read_task.await of monitor_child never completes, see SpecBox).
SandboxRunOutcomes(F) ==
    {Ok(r) : r \in SandboxOk}
        \cup (IF "spawn" \in F THEN {RunErr} ELSE {})
        \cup (IF "leak" \in F THEN {RunHang} ELSE {})

(***************************************************************************)
(* State.                                                                  *)
(***************************************************************************)
VARIABLES
    queue,      \* the broker's list turbo:jobs
    kv,         \* the broker's keys turbo:result:<id>
    inbox,      \* messages delivered to each handler's subscription
    hs,         \* each handler activation: pc, job id, subscribed, response
    nextId,     \* ids Uuid::new_v4 has not yet returned
    wk,         \* each worker task: pc and execute_job's locals
    tempDirs,   \* <system_temp>/turbo-<user>/<id>: absent or its files
    cgroups,    \* the job cgroups turbo-box-<id> that exist
    cache,      \* <temp_dir>/turbo-cache-<user>/<hash>: absent or its files
    trace,      \* per job id, the calls execute_job and start_worker made
    box,        \* one LinuxSandbox::run in progress
    cacheTime,  \* the directory mtimes of the entries of the workers' cache root
    gc,         \* the GC task and the directory /tmp/turbo-cache it scans
    call,       \* one call of a function of the program: its input and result
    manager     \* the manager cgroup and the sandbox.init calls in progress

vars ==
    <<queue, kv, inbox, hs, nextId, wk, tempDirs, cgroups, cache, trace, box,
      cacheTime, gc, call, manager>>

(***************************************************************************)
(* The HTTP handler: execute (handlers.rs) over push_job and               *)
(* wait_for_result (queue.rs).                                             *)
(***************************************************************************)
HandlerIdle == [pc |-> "idle", id |-> 0, subscribed |-> FALSE, response |-> None]

\* What execute returns: Ok(Json(result)) is a 200 with the JobResult as
\* body, Err((StatusCode::INTERNAL_SERVER_ERROR, message)) a 500.
\* A handler that answers 202 for a result.
OkJson_Accepted(result) == [status |-> 202, body |-> result]

OkJson(result) == [status |-> 200, body |-> result]

INTERNAL_SERVER_ERROR(message) == [status |-> 500, body |-> message]

\* Uuid::new_v4: an id no earlier call returned.
NewJobId == nextId

\* RPUSH turbo:jobs
push_job(job) == queue' = Append(queue, job)

\* execute, up to the return of push_job.
ExecutePush(h, req) ==
    /\ hs[h].pc = "idle"
    /\ nextId \in JobIds
    /\ push_job(Job(NewJobId, req))
    /\ hs' = [hs EXCEPT ![h] = [@ EXCEPT !.pc = "subscribe", !.id = NewJobId]]
    /\ nextId' = nextId + 1
    /\ UNCHANGED <<kv, inbox, wk, tempDirs, cgroups, cache, trace, box,
                 cacheTime, gc, call, manager>>

\* wait_for_result: SUBSCRIBE turbo:job:<id>
WaitSubscribe(h) ==
    /\ hs[h].pc = "subscribe"
    /\ hs' = [hs EXCEPT ![h] = [@ EXCEPT !.pc = "get", !.subscribed = TRUE]]
    /\ UNCHANGED <<queue, kv, inbox, nextId, wk, tempDirs, cgroups, cache, trace, box,
                 cacheTime, gc, call, manager>>

\* wait_for_result: GET turbo:result:<id>; a present value is returned and
\* the subscription dropped.
WaitGet(h) ==
    /\ hs[h].pc = "get"
    /\ IF IsSome(kv[hs[h].id])
         THEN /\ hs' = [hs EXCEPT ![h] = [@ EXCEPT !.pc = "done", !.subscribed = FALSE,
                                                   !.response = Some(OkJson(Unwrap(kv[hs[h].id])))]]
              /\ inbox' = [inbox EXCEPT ![h] = <<>>]
         ELSE /\ hs' = [hs EXCEPT ![h] = [@ EXCEPT !.pc = "recv"]]
              /\ inbox' = inbox
    /\ UNCHANGED <<queue, kv, nextId, wk, tempDirs, cgroups, cache, trace, box,
                 cacheTime, gc, call, manager>>

\* wait_for_result: the next message of the subscription.
WaitRecv(h) ==
    /\ hs[h].pc = "recv"
    /\ inbox[h] # <<>>
    /\ hs' = [hs EXCEPT ![h] = [@ EXCEPT !.pc = "done", !.subscribed = FALSE,
                                         !.response = Some(OkJson(Head(inbox[h])))]]
    /\ inbox' = [inbox EXCEPT ![h] = <<>>]
    /\ UNCHANGED <<queue, kv, nextId, wk, tempDirs, cgroups, cache, trace, box,
                 cacheTime, gc, call, manager>>

\* execute when push_job returns an error (no connection, RPUSH failed):
\* the job is not queued.
ExecutePushFails(h) ==
    /\ hs[h].pc = "idle"
    /\ hs' = [hs EXCEPT ![h] = [@ EXCEPT !.pc = "done",
                                         !.response = Some(INTERNAL_SERVER_ERROR("Queue error"))]]
    /\ UNCHANGED <<queue, kv, inbox, nextId, wk, tempDirs, cgroups, cache, trace, box,
                 cacheTime, gc, call, manager>>

\* execute when wait_for_result returns an error: a connection, SUBSCRIBE
\* or GET that fails, or the message stream ending.
WaitFails(h) ==
    /\ hs[h].pc \in {"subscribe", "get", "recv"}
    /\ hs' = [hs EXCEPT ![h] = [@ EXCEPT !.pc = "done", !.subscribed = FALSE,
                                         !.response = Some(INTERNAL_SERVER_ERROR(
                                                             "Execution timeout or error"))]]
    /\ inbox' = [inbox EXCEPT ![h] = <<>>]
    /\ UNCHANGED <<queue, kv, nextId, wk, tempDirs, cgroups, cache, trace, box,
                 cacheTime, gc, call, manager>>

(***************************************************************************)
(* The worker: start_worker and execute_job (worker.rs).                   *)
(***************************************************************************)
WorkerIdle ==
    [pc |-> "pop", job |-> None, compile_result |-> None, cache_path |-> None,
     testcase_results |-> <<>>, single_run_result |-> None, todo |-> {},
     raw |-> None, result |-> None]

JobOf(w) == Unwrap(wk[w].job)
ReqOf(w) == JobOf(w).request

Log(id, ev) == [trace EXCEPT ![id] = Append(@, ev)]
Log2(id, ev1, ev2) == [trace EXCEPT ![id] = Append(Append(@, ev1), ev2)]
Log3(id, ev1, ev2, ev3) == [trace EXCEPT ![id] = Append(Append(Append(@, ev1), ev2), ev3)]

\* A fail_job that loses the message.
fail_job_no_message(job, err) ==
    JobResult(job.request.language, VersionOrDefault(job.request),
              Some([stub_result EXCEPT !.status = "RuntimeError"]), None, None)

fail_job(job, err) ==
    JobResult(job.request.language, VersionOrDefault(job.request),
              Some([stub_result EXCEPT !.status = "RuntimeError", !.stdout = "",
                                       !.stderr = err]),
              None, None)

\* An early return of execute_job: the result goes to publish_result.
Return(w, res) == [wk[w] EXCEPT !.pc = "publish", !.result = Some(res)]

\* pop_job: BLPOP turbo:jobs, which blocks on an empty list.
Popped == Head(queue)

\* A pop that leaves the job on the list (LINDEX instead of BLPOP).
BlpopRest_Peek == queue

\* What BLPOP leaves of the list.
BlpopRest == Tail(queue)

pop_job(w) ==
    /\ wk[w].pc = "pop"
    /\ queue # <<>>
    /\ queue' = BlpopRest
    /\ wk' = [wk EXCEPT ![w] = [WorkerIdle EXCEPT !.pc = "setup", !.job = Some(Popped)]]
    /\ trace' = Log(Popped.id, "pop")
    /\ UNCHANGED <<kv, inbox, hs, nextId, tempDirs, cgroups, cache, box,
                 cacheTime, gc, call, manager>>

\* execute_job, lines 55-83: temp dir, source files, runtime directory,
\* package.yaml, sandbox.init.
Setup(w, F) ==
    /\ wk[w].pc = "setup"
    /\ LET job == JobOf(w)
           id == job.id
           lang == job.request.language
       IN \E fault \in {"none"} \cup (F \cap {"mkdir", "write", "init"}) :
            IF fault = "mkdir"
              THEN /\ wk' = [wk EXCEPT ![w] = Return(w, fail_job(job, "Failed to create temp dir"))]
                   /\ trace' = Log2(id, "execute_job", "err_mkdir")
                   /\ UNCHANGED <<tempDirs, cgroups>>
            ELSE IF fault = "write"
              THEN /\ wk' = [wk EXCEPT ![w] = Return(w, fail_job(job, "Failed to write file"))]
                   /\ tempDirs' = [tempDirs EXCEPT ![id] = Some({})]
                   /\ trace' = Log2(id, "execute_job", "err_write")
                   /\ UNCHANGED cgroups
            ELSE IF ~RuntimeExists(lang)
              THEN /\ wk' = [wk EXCEPT ![w] = Return(w, fail_job(job, "Runtime not found"))]
                   /\ tempDirs' = [tempDirs EXCEPT ![id] = Some(SourceFiles(job.request))]
                   /\ trace' = Log2(id, "execute_job", "err_runtime")
                   /\ UNCHANGED cgroups
            ELSE IF ~PackageYamlValid(lang)
              THEN /\ wk' = [wk EXCEPT ![w] = Return(w, fail_job(job, "Invalid runtime definition"))]
                   /\ tempDirs' = [tempDirs EXCEPT ![id] = Some(SourceFiles(job.request))]
                   /\ trace' = Log2(id, "execute_job", "err_yaml")
                   /\ UNCHANGED cgroups
            ELSE IF fault = "init"
              THEN /\ wk' = [wk EXCEPT ![w] = Return(w, fail_job(job, "Sandbox init failed"))]
                   /\ tempDirs' = [tempDirs EXCEPT ![id] = Some(SourceFiles(job.request))]
                   /\ trace' = Log2(id, "execute_job", "err_init")
                   /\ UNCHANGED cgroups
              ELSE /\ wk' = [wk EXCEPT ![w] = [@ EXCEPT !.pc = "cache"]]
                   /\ tempDirs' = [tempDirs EXCEPT ![id] = Some(SourceFiles(job.request))]
                   /\ cgroups' = cgroups \cup {id}
                   /\ trace' = Log2(id, "execute_job", "init")
    /\ UNCHANGED <<queue, kv, inbox, hs, nextId, cache, box,
                 cacheTime, gc, call, manager>>

\* Time on the workers' cache root: dir[key] is the modification time of
\* the entry directory key, clock the latest of them.  The modification
\* time of a directory is set when an entry is created in it, not when a
\* file it holds is rewritten.  Modified: the directory of key is modified
\* by the write that is being made, at a time later than all before.
Modified(t, key) == [clock |-> t.clock + 1, dir |-> [t.dir EXCEPT ![key] = t.clock + 1]]

\* fs::write or fs::copy of file f into the entry key: f is created unless
\* the entry holds it already; with no entry directory the write fails.
AfterWrite(t, key, f) ==
    IF IsSome(cache[key]) /\ f.name \notin FileNames(Unwrap(cache[key]))
      THEN Modified(t, key)
      ELSE t

\* sandbox.cleanup(id): rmdir of the job cgroup.
cleanup(id) == cgroups \ {id}

\* execute_job, lines 85-120: the cache lookup.  With a compile.sh the key
\* is computed and job_cache_path.exists() decides between restore and
\* compile; cache_path is set either way.
CacheLookup(w) ==
    /\ wk[w].pc = "cache"
    /\ LET req == ReqOf(w)
           key == calculate_job_hash(req)
       IN IF HasCompileScript(req.language)
            THEN IF IsSome(cache[key])
                   THEN wk' = [wk EXCEPT ![w] = [@ EXCEPT !.pc = "restore_open",
                                                          !.cache_path = Some(key)]]
                   ELSE wk' = [wk EXCEPT ![w] = [@ EXCEPT !.pc = "compile",
                                                          !.cache_path = Some(key)]]
            ELSE wk' = [wk EXCEPT ![w] = [@ EXCEPT !.pc = "runcheck"]]
    /\ UNCHANGED <<queue, kv, inbox, hs, nextId, tempDirs, cgroups, cache, trace, box,
                 cacheTime, gc, call, manager>>

\* hard_link_recursive(job_cache_path, temp_dir): read_dir of the entry.  A
\* failure (the entry is gone, or the I/O fault "restore") falls back to a
\* real compile.
RestoreOpen(w, F) ==
    /\ wk[w].pc = "restore_open"
    /\ LET key == Unwrap(wk[w].cache_path)
       IN \E fault \in {"none"} \cup (F \cap {"restore"}) :
            IF fault = "restore" \/ ~IsSome(cache[key])
              THEN wk' = [wk EXCEPT ![w] = [@ EXCEPT !.pc = "compile"]]
              ELSE wk' = [wk EXCEPT ![w] = [@ EXCEPT !.pc = "restore_link",
                                                     !.todo = FileNames(Unwrap(cache[key]))]]
    /\ UNCHANGED <<queue, kv, inbox, hs, nextId, tempDirs, cgroups, cache, trace, box,
                 cacheTime, gc, call, manager>>

\* hard_link_recursive: one entry, hard-linked (or copied) into the temp
\* dir; a file that is no longer there fails the restore.
RestoreLink(w) ==
    /\ wk[w].pc = "restore_link"
    /\ wk[w].todo # {}
    /\ LET key == Unwrap(wk[w].cache_path)
           id == JobOf(w).id
       IN \E f \in wk[w].todo :
            IF IsSome(cache[key]) /\ f \in FileNames(Unwrap(cache[key]))
              THEN /\ tempDirs' = [tempDirs EXCEPT ![id] =
                                     Some(WriteFile(Unwrap(@), FileAt(Unwrap(cache[key]), f)))]
                   /\ wk' = [wk EXCEPT ![w] = [@ EXCEPT !.todo = @ \ {f}]]
              ELSE /\ wk' = [wk EXCEPT ![w] = [@ EXCEPT !.pc = "compile", !.todo = {}]]
                   /\ UNCHANGED tempDirs
    /\ UNCHANGED <<queue, kv, inbox, hs, nextId, cgroups, cache, trace, box,
                 cacheTime, gc, call, manager>>

\* The compile result of a cache hit (worker.rs 110-115).
RestoredResult_StubStatus ==
    [stub_result EXCEPT !.stdout = "Restored from cache", !.stderr = ""]

RestoredResult ==
    [stub_result EXCEPT !.status = "Success", !.stdout = "Restored from cache",
                        !.stderr = ""]

\* Where execute_job goes with compile_result set by the restore: past
\* `if compile_result.is_none() && compile_script.exists()` (worker.rs
\* 123), to the run stage.
AfterRestore_Compile == "compile"

AfterRestore == "runcheck"

\* After hard_link_recursive returned Ok: touch <entry>/.touch (errors
\* ignored) and report the compile stage as restored.
RestoreDone(w) ==
    /\ wk[w].pc = "restore_link"
    /\ wk[w].todo = {}
    /\ LET key == Unwrap(wk[w].cache_path)
       IN /\ cache' = IF IsSome(cache[key])
                        THEN [cache EXCEPT ![key] = Some(WriteFile(Unwrap(@), TouchFile))]
                        ELSE cache
          /\ cacheTime' = AfterWrite(cacheTime, key, TouchFile)
          /\ wk' = [wk EXCEPT ![w] = [@ EXCEPT !.pc = AfterRestore,
                                               !.compile_result = Some(RestoredResult)]]
          /\ trace' = Log(JobOf(w).id, "restore")
    /\ UNCHANGED <<queue, kv, inbox, hs, nextId, tempDirs, cgroups, box, gc,
                 call, manager>>

\* The compile stage's result when sandbox.run returned a status other than
\* Success (worker.rs 150-152).
CompileFailed_StatusKept(res) == res

CompileFailed(res) == [res EXCEPT !.status = "CompilationError"]

\* What a successful compile.sh does to the working directory: it writes
\* the artifact.
compile_sh(dir) == {g \in dir : g.name \notin FileNames(ArtifactFiles)} \cup ArtifactFiles

\* execute_job, lines 123-178 up to the cache store: sandbox.run of
\* compile.sh.
Compile(w, F) ==
    /\ wk[w].pc = "compile"
    /\ LET job == JobOf(w)
           id == job.id
           req == job.request
       IN \E o \in SandboxRunOutcomes(F) :
            CASE o.kind = "hang" ->
                   /\ wk' = [wk EXCEPT ![w] = [@ EXCEPT !.pc = "blocked"]]
                   /\ trace' = Log(id, "run_compile")
                   /\ UNCHANGED <<tempDirs, cgroups>>
              [] o.kind = "err" ->
                   /\ wk' = [wk EXCEPT ![w] = Return(w, fail_job(job, "Compile execution failed"))]
                   /\ cgroups' = cleanup(id)
                   /\ trace' = Log3(id, "run_compile", "err_compile_run", "cleanup")
                   /\ UNCHANGED tempDirs
              [] o.kind = "ok" /\ o.res.status # "Success" ->
                   /\ wk' = [wk EXCEPT ![w] =
                               [@ EXCEPT !.pc = "publish",
                                         !.raw = Some(o.res),
                                         !.compile_result = Some(CompileFailed(o.res)),
                                         !.result = Some(JobResult(req.language,
                                                        VersionOrLatest(req), None,
                                                        Some(CompileFailed(o.res)), None))]]
                   /\ cgroups' = cleanup(id)
                   /\ trace' = Log3(id, "run_compile", "compile_failed", "cleanup")
                   /\ UNCHANGED tempDirs
              [] o.kind = "ok" /\ o.res.status = "Success" ->
                   /\ wk' = [wk EXCEPT ![w] =
                               [@ EXCEPT !.pc = IF IsSome(wk[w].cache_path)
                                                  THEN "store_open" ELSE "runcheck",
                                         !.raw = Some(o.res),
                                         !.compile_result = Some(o.res)]]
                   /\ tempDirs' = [tempDirs EXCEPT ![id] = Some(compile_sh(Unwrap(@)))]
                   /\ trace' = Log(id, "run_compile")
                   /\ UNCHANGED cgroups
    /\ UNCHANGED <<queue, kv, inbox, hs, nextId, cache, box,
                 cacheTime, gc, call, manager>>

\* Where execute_job goes when copy_dir_recursive returned Err: the error
\* is logged (worker.rs 165-166) and the job goes on to the run stage.
AfterStoreError_SkipRun == "finish"

AfterStoreError == "runcheck"

\* copy_dir_recursive(temp_dir, path): create the entry directory unless it
\* exists, then read_dir of the temp dir.  An error is logged and the job
\* goes on.
StoreOpen(w, F) ==
    /\ wk[w].pc = "store_open"
    /\ LET key == Unwrap(wk[w].cache_path)
           id == JobOf(w).id
       IN \E fault \in {"none"} \cup (F \cap {"store"}) :
            IF fault = "store"
              THEN /\ wk' = [wk EXCEPT ![w] = [@ EXCEPT !.pc = AfterStoreError]]
                   /\ UNCHANGED <<cache, cacheTime>>
              ELSE /\ cache' = IF IsSome(cache[key]) THEN cache
                                ELSE [cache EXCEPT ![key] = Some({})]
                   /\ cacheTime' = IF IsSome(cache[key]) THEN cacheTime
                                    ELSE Modified(cacheTime, key)
                   /\ wk' = [wk EXCEPT ![w] = [@ EXCEPT !.pc = "store_copy",
                                                        !.todo = FileNames(Unwrap(tempDirs[id]))]]
    /\ trace' = Log(JobOf(w).id, "store_begin")
    /\ UNCHANGED <<queue, kv, inbox, hs, nextId, tempDirs, cgroups, box, gc,
                 call, manager>>

\* copy_dir_recursive: fs::copy of one entry into the cache entry.
StoreCopy(w, F) ==
    /\ wk[w].pc = "store_copy"
    /\ wk[w].todo # {}
    /\ LET key == Unwrap(wk[w].cache_path)
           temp_dir == Unwrap(tempDirs[JobOf(w).id])
       IN \E f \in wk[w].todo, fault \in {"none"} \cup (F \cap {"store"}) :
            IF fault = "store" \/ ~IsSome(cache[key])
              THEN /\ wk' = [wk EXCEPT ![w] = [@ EXCEPT !.pc = AfterStoreError, !.todo = {}]]
                   /\ UNCHANGED <<cache, cacheTime>>
              ELSE /\ cache' = [cache EXCEPT ![key] =
                                  Some(WriteFile(Unwrap(@), FileAt(temp_dir, f)))]
                   /\ cacheTime' = AfterWrite(cacheTime, key, FileAt(temp_dir, f))
                   /\ wk' = [wk EXCEPT ![w] = [@ EXCEPT !.todo = @ \ {f}]]
    /\ UNCHANGED <<queue, kv, inbox, hs, nextId, tempDirs, cgroups, trace, box, gc,
                 call, manager>>

\* After copy_dir_recursive returned Ok: touch <entry>/.touch.
StoreDone(w) ==
    /\ wk[w].pc = "store_copy"
    /\ wk[w].todo = {}
    /\ LET key == Unwrap(wk[w].cache_path)
       IN /\ cache' = IF IsSome(cache[key])
                        THEN [cache EXCEPT ![key] = Some(WriteFile(Unwrap(@), TouchFile))]
                        ELSE cache
          /\ cacheTime' = AfterWrite(cacheTime, key, TouchFile)
          /\ wk' = [wk EXCEPT ![w] = [@ EXCEPT !.pc = "runcheck"]]
          /\ trace' = Log(JobOf(w).id, "store")
    /\ UNCHANGED <<queue, kv, inbox, hs, nextId, tempDirs, cgroups, box, gc,
                 call, manager>>

\* execute_job, lines 180-189: run.sh must exist; then batch or single mode.
RunCheck(w) ==
    /\ wk[w].pc = "runcheck"
    /\ LET job == JobOf(w)
           id == job.id
           req == job.request
       IN IF ~HasRunScript(req.language)
            THEN /\ wk' = [wk EXCEPT ![w] = Return(w, fail_job(job, "Run script not found"))]
                 /\ cgroups' = cleanup(id)
                 /\ trace' = Log2(id, "err_norun", "cleanup")
            ELSE /\ wk' = [wk EXCEPT ![w] =
                             [@ EXCEPT !.pc = IF ~IsSome(req.testcases) THEN "single"
                                              ELSE IF Unwrap(req.testcases) = <<>> THEN "finish"
                                              ELSE "batch"]]
                 /\ UNCHANGED <<cgroups, trace>>
    /\ UNCHANGED <<queue, kv, inbox, hs, nextId, tempDirs, cache, box,
                 cacheTime, gc, call, manager>>

\* String::trim on the outputs the model carries.
Trim(s) == IF s = " out\n" THEN "out" ELSE s

\* The stage result of a testcase whose sandbox.run returned Err
\* (worker.rs 219-224).
SandboxErrorResult ==
    [stub_result EXCEPT !.status = "RuntimeError", !.stdout = "",
                        !.stderr = "Sandbox error"]

\* passed (worker.rs 227-231).
Passed(tc, stage_res) ==
    IF IsSome(tc.expected_output)
      THEN Trim(stage_res.stdout) = Trim(Unwrap(tc.expected_output))
      ELSE TRUE

\* execute_job, lines 190-239: one iteration of the testcase loop.
\* A loop that takes the testcases from the back.
NextTestcase_Reversed(tcs, done) == tcs[Len(tcs) - Len(done)]

\* for tc in testcases (worker.rs 190): the testcase the loop is at when the
\* results of done have been pushed.
NextTestcase(tcs, done) == tcs[Len(done) + 1]

RunTestcase(w, F) ==
    /\ wk[w].pc = "batch"
    /\ LET job == JobOf(w)
           id == job.id
           tcs == Unwrap(job.request.testcases)
           tc == NextTestcase(tcs, wk[w].testcase_results)
       IN \E o \in SandboxRunOutcomes(F) :
            IF o.kind = "hang"
              THEN /\ wk' = [wk EXCEPT ![w] = [@ EXCEPT !.pc = "blocked"]]
                   /\ trace' = Log(id, "run_testcase")
              ELSE LET stage_res == IF o.kind = "ok" THEN o.res ELSE SandboxErrorResult
                       tr == TestcaseResult(tc.id, Passed(tc, stage_res),
                                            stage_res.stdout, stage_res)
                       all == Append(wk[w].testcase_results, tr)
                   IN /\ wk' = [wk EXCEPT ![w] =
                                  [@ EXCEPT !.testcase_results = all,
                                            !.pc = IF Len(all) = Len(tcs) THEN "finish"
                                                   ELSE "batch"]]
                      /\ trace' = IF o.kind = "ok" THEN Log(id, "run_testcase")
                                   ELSE Log2(id, "run_testcase", "err_run")
    /\ UNCHANGED <<queue, kv, inbox, hs, nextId, tempDirs, cgroups, cache, box,
                 cacheTime, gc, call, manager>>

\* execute_job, lines 240-267: the single run; .ok() drops an Err.
RunSingle(w, F) ==
    /\ wk[w].pc = "single"
    /\ \E o \in SandboxRunOutcomes(F) :
         IF o.kind = "hang"
           THEN /\ wk' = [wk EXCEPT ![w] = [@ EXCEPT !.pc = "blocked"]]
                /\ trace' = Log(JobOf(w).id, "run_single")
           ELSE /\ wk' = [wk EXCEPT ![w] =
                            [@ EXCEPT !.pc = "finish",
                                      !.single_run_result =
                                          IF o.kind = "ok" THEN Some(o.res) ELSE None]]
                /\ trace' = IF o.kind = "ok" THEN Log(JobOf(w).id, "run_single")
                             ELSE Log2(JobOf(w).id, "run_single", "err_run")
    /\ UNCHANGED <<queue, kv, inbox, hs, nextId, tempDirs, cgroups, cache, box,
                 cacheTime, gc, call, manager>>

\* testcases of the final JobResult (worker.rs 277-281).
TestcasesField(testcase_results) ==
    IF testcase_results = <<>> THEN None ELSE Some(testcase_results)

\* execute_job, lines 269-282: cleanup, remove the temp dir, build the result.
\* An end of the run stage that cleans up twice.
FinalCalls_CleanupTwice == <<"cleanup", "cleanup">>

\* The calls that end the run stage (worker.rs 269-270): sandbox.cleanup,
\* then fs::remove_dir_all of the temp dir.
FinalCalls == <<"cleanup", "remove_temp">>

Finish(w) ==
    /\ wk[w].pc = "finish"
    /\ LET job == JobOf(w)
           id == job.id
           req == job.request
       IN /\ cgroups' = cleanup(id)
          /\ tempDirs' = [tempDirs EXCEPT ![id] = None]
          /\ trace' = Log2(id, FinalCalls[1], FinalCalls[2])
          /\ wk' = [wk EXCEPT ![w] =
                      Return(w, JobResult(req.language, VersionOrLatest(req),
                                          wk[w].single_run_result,
                                          wk[w].compile_result,
                                          TestcasesField(wk[w].testcase_results)))]
    /\ UNCHANGED <<queue, kv, inbox, hs, nextId, cache, box,
                 cacheTime, gc, call, manager>>

\* The handlers a PUBLISH on turbo:job:<id> reaches.
Subscribers(id) == {h \in Handlers : hs[h].subscribed /\ hs[h].id = id}

\* publish_result: PUBLISH turbo:job:<id>.
Publish(w) ==
    /\ wk[w].pc = "publish"
    /\ inbox' = [h \in Handlers |->
                   IF h \in Subscribers(JobOf(w).id)
                     THEN Append(inbox[h], Unwrap(wk[w].result))
                     ELSE inbox[h]]
    /\ wk' = [wk EXCEPT ![w] = [@ EXCEPT !.pc = "setex"]]
    /\ trace' = Log(JobOf(w).id, "publish_result")
    /\ UNCHANGED <<queue, kv, hs, nextId, tempDirs, cgroups, cache, box,
                 cacheTime, gc, call, manager>>

\* Where start_worker goes after publish_result: the next pop_job.
AfterPublish == WorkerIdle

\* publish_result: SETEX turbo:result:<id>; then the loop's next iteration.
SetEx(w) ==
    /\ wk[w].pc = "setex"
    /\ kv' = [kv EXCEPT ![JobOf(w).id] = wk[w].result]
    /\ wk' = [wk EXCEPT ![w] = AfterPublish]
    /\ UNCHANGED <<queue, inbox, hs, nextId, tempDirs, cgroups, cache, trace, box,
                 cacheTime, gc, call, manager>>

\* publish_result whose broker operation fails: start_worker logs the error
\* and goes on with the next pop_job.
PublishFails(w) ==
    /\ wk[w].pc \in {"publish", "setex"}
    /\ wk' = [wk EXCEPT ![w] = AfterPublish]
    /\ trace' = IF wk[w].pc = "publish" THEN Log(JobOf(w).id, "publish_result") ELSE trace
    /\ UNCHANGED <<queue, kv, inbox, hs, nextId, tempDirs, cgroups, cache, box,
                 cacheTime, gc, call, manager>>

(***************************************************************************)
(* Spec: handlers and workers over the broker.  Every broker operation     *)
(* succeeds; a sandbox.run may fail or never return.                       *)
(***************************************************************************)
BoxIdle == [pc |-> "idle"]

NoCacheTime == [clock |-> 0, dir |-> [k \in CacheKeys |-> 0]]

\* The GC task asleep (gc.rs 19-20) over an empty /tmp/turbo-cache.
GcIdle == [pc |-> "sleep", root |-> {}, pending |-> <<>>]

\* No function call is being looked at.
CallIdle == [op |-> "none"]

\* The manager cgroup exists with its controllers enabled, and no
\* sandbox.init is in progress.
InitIdle == [pc |-> "none", id |-> 0]

ManagerIdle ==
    [exists |-> TRUE, subtree_control |-> TRUE, enable_failed |-> FALSE,
     jobs |-> {}, started |-> {}, init |-> [w \in Workers |-> InitIdle]]

InitTasks ==
    /\ inbox = [h \in Handlers |-> <<>>]
    /\ kv = [i \in JobIds |-> None]
    /\ wk = [w \in Workers |-> WorkerIdle]
    /\ tempDirs = [i \in JobIds |-> None]
    /\ cgroups = {}
    /\ cache = [k \in CacheKeys |-> None]
    /\ trace = [i \in JobIds |-> <<>>]
    /\ cacheTime = NoCacheTime
    /\ gc = GcIdle
    /\ call = CallIdle
    /\ manager = ManagerIdle

Init ==
    /\ InitTasks
    /\ box = BoxIdle
    /\ queue = <<>>
    /\ hs = [h \in Handlers |-> HandlerIdle]
    /\ nextId = 1

\* The requests the handlers of Spec submit.
SpecRequests == {r \in Requests : r.language \in {"ghost", "script"} /\ r.testcases = None}

SpecFaults == {"leak"}

HandlerStep(h) ==
    \/ \E req \in SpecRequests : ExecutePush(h, req)
    \/ WaitSubscribe(h)
    \/ WaitGet(h)
    \/ WaitRecv(h)

WorkerStep(w) ==
    \/ pop_job(w)
    \/ Setup(w, SpecFaults)
    \/ CacheLookup(w)
    \/ RunCheck(w)
    \/ RunSingle(w, SpecFaults)
    \/ Finish(w)
    \/ Publish(w)
    \/ SetEx(w)

Next ==
    \/ \E h \in Handlers : HandlerStep(h)
    \/ \E w \in Workers : WorkerStep(w)

Spec == Init /\ [][Next]_vars

FairSpec ==
    /\ Spec
    /\ \A h \in Handlers : WF_vars(HandlerStep(h))
    /\ \A w \in Workers : WF_vars(WorkerStep(w))

(***************************************************************************)
(* SpecPool: the worker pool alone.  Handlers push jobs at any time; their *)
(* wait_for_result, which touches neither the queue nor a worker, is left  *)
(* out.                                                                    *)
(***************************************************************************)
PoolNext ==
    \/ \E h \in Handlers, req \in SpecRequests : ExecutePush(h, req)
    \/ \E w \in Workers : WorkerStep(w)

SpecPool == Init /\ [][PoolNext]_vars

(***************************************************************************)
(* Claims checked under Spec and FairSpec.                                 *)
(***************************************************************************)
Count(seq, ev) == Len(SelectSeq(seq, LAMBDA e : e = ev))

Pushed(j) == j < nextId

\* execute_job is active in worker w: from the pop to the return.
ExecutePcs ==
    {"setup", "cache", "restore_open", "restore_link", "compile", "store_open",
     "store_copy", "runcheck", "batch", "single", "finish", "blocked"}

Active(w) == wk[w].pc \in ExecutePcs

\* C1: no lost wakeup.  A handler that pushed a job and called
\* wait_for_result(id) is never left waiting for the next message of its
\* subscription when publish_result(id) has completed (PUBLISH, then SETEX)
\* and no message was delivered to it: from such a state wait_for_result
\* never returns.
C1_NoLostWakeup ==
    \A h \in Handlers :
        ~(hs[h].pc = "recv" /\ inbox[h] = <<>> /\ IsSome(kv[hs[h].id]))

\* C2: reliable delivery.  Under weak fairness of every worker and handler,
\* every pushed job is popped exactly once, execute_job runs for it exactly
\* once and publish_result is called for it exactly once.
C2_ReliableDelivery ==
    /\ \A j \in JobIds :
         [](Pushed(j) => <>(Count(trace[j], "publish_result") = 1))
    /\ [](\A j \in JobIds :
            /\ Count(trace[j], "pop") <= 1
            /\ Count(trace[j], "execute_job") <= 1
            /\ Count(trace[j], "publish_result") <= 1)

\* C5: exclusive ownership.  No two workers are inside execute_job for the
\* same job id at the same time, so the cgroup turbo-box-<id> and the temp
\* directory of a job belong to one worker only.
C5_ExclusiveOwnership ==
    \A w1, w2 \in Workers :
        (w1 # w2 /\ Active(w1) /\ Active(w2)) => JobOf(w1).id # JobOf(w2).id

\* Two workers are inside execute_job at once, both past sandbox.init.
C5_Witness ==
    \E w1, w2 \in Workers :
        /\ w1 # w2
        /\ wk[w1].pc \in {"single", "finish"}
        /\ wk[w2].pc \in {"single", "finish"}

(***************************************************************************)
(* SpecBox: one call of LinuxSandbox::run, from the spawn of the child and *)
(* of the output reader (monitor_child) to the returned StageResult.       *)
(*                                                                         *)
(* The child is a program: a sequence of one-byte writes to stdout ("out") *)
(* or stderr ("err") and then how it ends: exit 0, exit 1, death by        *)
(* signal 9 or 11, or never ("loop").  With leak the child has left a      *)
(* descendant that inherited both pipes, stays in the job cgroup, writes   *)
(* nothing and does not exit by itself.  A pipe holds PipeCap bytes; a     *)
(* write to a full pipe blocks.                                            *)
(***************************************************************************)
RECURSIVE SeqsUpTo(_, _)
SeqsUpTo(S, n) ==
    IF n = 0 THEN {<<>>}
    ELSE LET shorter == SeqsUpTo(S, n - 1)
         IN shorter \cup {Append(q, x) : q \in shorter, x \in S}

Streams == {"out", "err"}
Endings == {"exit0", "exit1", "sig9", "sig11", "loop"}

\* The bytes a program writes are all ASCII or all 0xFF, which is not valid
\* UTF-8 anywhere.
ByteKinds == {"ascii", "invalid"}

Programs ==
    [writes : SeqsUpTo(Streams, MaxWrites), fin : Endings, leak : BOOLEAN,
     bytes : ByteKinds]

\* String::from_utf8_lossy(..).to_string() of n captured bytes, as the byte
\* length of the String: every invalid byte becomes U+FFFD, three bytes.
from_utf8_lossy(n, kind) == IF kind = "invalid" THEN 3 * n ELSE n

\* The state right after command.spawn() and tokio::spawn(read_task).
BoxStart(prog, cap, killFile, generous) ==
    [pc |-> "select", prog |-> prog, ip |-> 1,
     child |-> "running", desc |-> IF prog.leak THEN "alive" ELSE "none",
     pipe |-> [s \in Streams |-> 0],
     stage |-> "out", taken |-> [s \in Streams |-> 0],
     cap |-> cap, killFile |-> killFile, generous |-> generous,
     result |-> None]

\* A pipe is at end of file when it is empty and no process holds its
\* write end: the child and a descendant both hold both pipes.
HasWriter == box.child = "running" \/ box.desc = "alive"
AtEof(s) == box.pipe[s] = 0 /\ ~HasWriter

ChildCanWrite ==
    /\ box.child = "running"
    /\ box.ip <= Len(box.prog.writes)
    /\ box.pipe[box.prog.writes[box.ip]] < PipeCap

\* The child writes one byte.
ChildWrite ==
    /\ box.pc # "idle"
    /\ ChildCanWrite
    /\ LET s == box.prog.writes[box.ip]
       IN box' = [box EXCEPT !.pipe[s] = @ + 1, !.ip = @ + 1]
    /\ UNCHANGED <<queue, kv, inbox, hs, nextId, wk, tempDirs, cgroups, cache, trace,
                 cacheTime, gc, call, manager>>

ChildCanFinish ==
    /\ box.child = "running"
    /\ box.ip > Len(box.prog.writes)
    /\ box.prog.fin # "loop"

\* The child ends as its program says.
ChildFinish ==
    /\ box.pc # "idle"
    /\ ChildCanFinish
    /\ box' = [box EXCEPT !.child = "exited"]
    /\ UNCHANGED <<queue, kv, inbox, hs, nextId, wk, tempDirs, cgroups, cache, trace,
                 cacheTime, gc, call, manager>>

\* read_task (linux.rs 284-293): stdout.take(cap).read_to_end, and only
\* then stderr.take(cap).read_to_end.
ReaderCanRead ==
    /\ box.stage \in Streams
    /\ box.taken[box.stage] < box.cap
    /\ box.pipe[box.stage] > 0

ReaderRead ==
    /\ box.pc # "idle"
    /\ ReaderCanRead
    /\ box' = [box EXCEPT !.pipe[box.stage] = @ - 1, !.taken[box.stage] = @ + 1]
    /\ UNCHANGED <<queue, kv, inbox, hs, nextId, wk, tempDirs, cgroups, cache, trace,
                 cacheTime, gc, call, manager>>

\* read_to_end returns at the cap (Take is exhausted) or at end of file.
ReaderCanAdvance ==
    /\ box.stage \in Streams
    /\ \/ box.taken[box.stage] = box.cap
       \/ AtEof(box.stage)

NextStage(stage) == IF stage = "out" THEN "err" ELSE "done"

ReaderAdvance ==
    /\ box.pc # "idle"
    /\ ReaderCanAdvance
    /\ box' = [box EXCEPT !.stage = NextStage(@)]
    /\ UNCHANGED <<queue, kv, inbox, hs, nextId, wk, tempDirs, cgroups, cache, trace,
                 cacheTime, gc, call, manager>>

\* tokio::select!, branch child.wait(): the child has exited.
SelectChildExit ==
    /\ box.pc = "select"
    /\ box.child = "exited"
    /\ box' = [box EXCEPT !.pc = "exit_await"]
    /\ UNCHANGED <<queue, kv, inbox, hs, nextId, wk, tempDirs, cgroups, cache, trace,
                 cacheTime, gc, call, manager>>

\* The deadline has elapsed.  With a generous deadline it elapses only
\* when neither the child nor the reader can move and the child has not
\* exited: the child would have exited before it.
DeadlineElapsed ==
    box.generous =>
        ~(ChildCanWrite \/ ChildCanFinish \/ ReaderCanRead \/ ReaderCanAdvance
            \/ box.child = "exited")

\* tokio::select!, branch sleep(timeout): child.kill().await, then 1 to
\* cgroup.kill when that file exists, which kills every process of the
\* job cgroup.
SelectTimeout ==
    /\ box.pc = "select"
    /\ DeadlineElapsed
    /\ box' = [box EXCEPT !.pc = "timeout_await",
                          !.child = IF @ = "running" THEN "killed" ELSE @,
                          !.desc = IF @ = "alive" /\ box.killFile THEN "dead" ELSE @]
    /\ UNCHANGED <<queue, kv, inbox, hs, nextId, wk, tempDirs, cgroups, cache, trace,
                 cacheTime, gc, call, manager>>

\* read_task.await has completed: the StageResult of either branch.  The
\* captured streams are represented by their lengths.
MonitorReturn ==
    /\ box.pc \in {"exit_await", "timeout_await"}
    /\ box.stage = "done"
    /\ box' = [box EXCEPT
                 !.pc = "returned",
                 !.result =
                    Some(IF box.pc = "exit_await"
                           THEN ExitResult(box.prog.fin,
                                           from_utf8_lossy(box.taken["out"], box.prog.bytes),
                                           from_utf8_lossy(box.taken["err"], box.prog.bytes))
                           ELSE TimeoutResult(from_utf8_lossy(box.taken["out"], box.prog.bytes),
                                              from_utf8_lossy(box.taken["err"], box.prog.bytes)))]
    /\ UNCHANGED <<queue, kv, inbox, hs, nextId, wk, tempDirs, cgroups, cache, trace,
                 cacheTime, gc, call, manager>>

InitBox ==
    /\ InitTasks
    /\ queue = <<>>
    /\ hs = [h \in Handlers |-> HandlerIdle]
    /\ nextId = 1
    /\ \E prog \in Programs, cap \in 0..MaxOutputCap, killFile \in BOOLEAN,
          generous \in BOOLEAN :
         box = BoxStart(prog, cap, killFile, generous)

BoxNext ==
    \/ ChildWrite
    \/ ChildFinish
    \/ ReaderRead
    \/ ReaderAdvance
    \/ SelectChildExit
    \/ SelectTimeout
    \/ MonitorReturn

SpecBox == InitBox /\ [][BoxNext]_vars

\* C3: the wall-clock deadline bounds every stage.  On a kernel that has
\* cgroup.kill, a call of run that has not returned can always make
\* progress (the child, the reader, the select or the return can take a
\* step), whatever the child and its descendants do; in particular run is
\* not left waiting for the output reader when the child has exited and a
\* descendant holds the pipes open.
C3_RunAlwaysReturns ==
    box.killFile => (box.pc = "returned" \/ ENABLED BoxNext)

\* The output written to stream s by the program.
Written(prog, s) == Cardinality({i \in 1..Len(prog.writes) : prog.writes[i] = s})

Min(a, b) == IF a < b THEN a ELSE b

\* C4: output truncation never changes a stage's outcome.  A child (with
\* no descendant) that writes more than output_limit_bytes to stdout or
\* stderr and then exits with code 0 before the deadline is reported
\* Success, each stream truncated to the cap.
C4_TruncationKeepsOutcome ==
    (/\ box.pc = "returned"
     /\ box.generous
     /\ box.prog.fin = "exit0"
     /\ ~box.prog.leak
     /\ box.prog.bytes = "ascii"
     /\ \E s \in Streams : Written(box.prog, s) > box.cap)
    => /\ Unwrap(box.result).status = "Success"
       /\ Unwrap(box.result).stdout = Min(box.cap, Written(box.prog, "out"))
       /\ Unwrap(box.result).stderr = Min(box.cap, Written(box.prog, "err"))

(***************************************************************************)
(* SpecJob: one worker running the loop of start_worker on a list of      *)
(* jobs, with every failure execute_job handles: temp dir creation, file   *)
(* write, sandbox.init, cache restore and store, sandbox.run returning Err *)
(* or not at all, and the broker.  The first job has any request shape;    *)
(* the jobs behind it are single-run resubmissions for the same language,  *)
(* hence the same cache key: the cache is all that one job of a worker     *)
(* leaves to the next.                                                     *)
(***************************************************************************)
JobFaults == {"mkdir", "write", "init", "restore", "store", "spawn", "leak"}

\* The handlers have pushed the requests reqs, with fresh ids 1..Len(jobs).
QueuedBy(reqs) ==
    /\ queue = [i \in 1..Len(reqs) |-> Job(i, reqs[i])]
    /\ nextId = Len(reqs) + 1
    /\ hs = [h \in Handlers |->
               IF h <= Len(reqs) THEN [HandlerIdle EXCEPT !.pc = "subscribe", !.id = h]
               ELSE HandlerIdle]

InitJob ==
    /\ InitTasks
    /\ box = BoxIdle
    /\ \E reqs \in SeqsUpTo(Requests, MaxJobs) :
         /\ Len(reqs) > 0
         /\ \A i \in 2..Len(reqs) :
              /\ reqs[i].language = reqs[1].language
              /\ reqs[i].testcases = None
         /\ QueuedBy(reqs)

\* One worker task of main's pool.
JobWorker == CHOOSE w \in Workers : \A v \in Workers : w <= v

JobNext ==
    \/ pop_job(JobWorker)
    \/ Setup(JobWorker, JobFaults)
    \/ CacheLookup(JobWorker)
    \/ RestoreOpen(JobWorker, JobFaults)
    \/ RestoreLink(JobWorker)
    \/ RestoreDone(JobWorker)
    \/ Compile(JobWorker, JobFaults)
    \/ StoreOpen(JobWorker, JobFaults)
    \/ StoreCopy(JobWorker, JobFaults)
    \/ StoreDone(JobWorker)
    \/ RunCheck(JobWorker)
    \/ RunTestcase(JobWorker, JobFaults)
    \/ RunSingle(JobWorker, JobFaults)
    \/ Finish(JobWorker)
    \/ Publish(JobWorker)
    \/ SetEx(JobWorker)
    \/ PublishFails(JobWorker)

SpecJob == InitJob /\ [][JobNext]_vars

(***************************************************************************)
(* Claims checked under SpecJob.                                           *)
(***************************************************************************)
Has(id, ev) == Count(trace[id], ev) > 0

\* execute_job has returned in worker w: its result is about to be handed
\* to publish_result.
Returned(w) == wk[w].pc = "publish"
ResultOf(w) == Unwrap(wk[w].result)

\* The stage results a JobResult holds.
StagesOf(res) ==
    (IF IsSome(res.run) THEN {Unwrap(res.run)} ELSE {})
        \cup (IF IsSome(res.compile) THEN {Unwrap(res.compile)} ELSE {})
        \cup (IF IsSome(res.testcases)
                THEN {Unwrap(res.testcases)[i].run_details :
                          i \in 1..Len(Unwrap(res.testcases))}
                ELSE {})

\* C7: a job that reached the run stage (it returned through the final
\* cleanup and temp dir removal) has exactly one of run and testcases
\* non-null, for every request shape; and compile is non-null only if a
\* compile stage ran or was restored from cache.
C7_ExactlyOneOfRunOrTestcases ==
    \A w \in Workers :
        (Returned(w) /\ Has(JobOf(w).id, "remove_temp")) =>
            /\ IsSome(ResultOf(w).run) # IsSome(ResultOf(w).testcases)
            /\ IsSome(ResultOf(w).compile) =>
                   (Has(JobOf(w).id, "run_compile") \/ Has(JobOf(w).id, "restore"))

SandboxErrorMessages == {"Sandbox init failed", "Compile execution failed", "Sandbox error"}

\* C8: when sandbox.init or a sandbox.run call returned an error during a
\* job, the JobResult holds a stage with status RuntimeError whose stderr
\* carries the error message.
C8_SandboxErrorsSurface ==
    \A w \in Workers :
        (/\ Returned(w)
         /\ \E ev \in {"err_init", "err_compile_run", "err_run"} : Has(JobOf(w).id, ev))
        => \E st \in StagesOf(ResultOf(w)) :
               st.status = "RuntimeError" /\ st.stderr \in SandboxErrorMessages

\* The failures before the run stage and the message of each.
PreRunFailures ==
    { <<"err_mkdir", "Failed to create temp dir">>,
      <<"err_write", "Failed to write file">>,
      <<"err_runtime", "Runtime not found">>,
      <<"err_yaml", "Invalid runtime definition">>,
      <<"err_init", "Sandbox init failed">>,
      <<"err_compile_run", "Compile execution failed">>,
      <<"err_norun", "Run script not found">> }

SyntheticFailure(res, msg) ==
    /\ IsSome(res.run)
    /\ Unwrap(res.run).status = "RuntimeError"
    /\ Unwrap(res.run).stderr = msg
    /\ res.compile = None
    /\ res.testcases = None

\* C9: every failure before the run stage gives a JobResult with
\* run.status = RuntimeError, run.stderr = the message, compile = null and
\* testcases = null; start_worker hands it to publish_result and then, the
\* broker operation succeeding or not, returns to pop_job with no job in
\* hand: the worker does not stop.
C9_PreRunFailureIsSynthetic ==
    /\ [](\A w \in Workers : \A f \in PreRunFailures :
            (Returned(w) /\ Has(JobOf(w).id, f[1])) => SyntheticFailure(ResultOf(w), f[2]))
    /\ [][\A w \in Workers :
            (wk[w].pc \in {"publish", "setex"} /\ wk'[w] # wk[w]) =>
                /\ \/ wk[w].pc = "publish" /\ wk'[w].pc = "setex" /\ wk'[w].result = wk[w].result
                   \/ wk'[w].pc = "pop" /\ wk'[w].job = None
                /\ Count(trace'[JobOf(w).id], "publish_result") > 0]_vars

\* A job failed for a missing run.sh after a compile, its result was
\* stored, and the worker is running the next job.
C9_Witness ==
    /\ Has(1, "err_norun")
    /\ IsSome(kv[1])
    /\ SyntheticFailure(Unwrap(kv[1]), "Run script not found")
    /\ wk[JobWorker].pc = "cache"
    /\ JobOf(JobWorker).id = 2

\* C10: when the compile stage's sandbox.run returns a status other than
\* Success, the JobResult has compile = the returned result with status
\* CompilationError and stdout/stderr unchanged, run = null and
\* testcases = null; no run-stage sandbox.run is issued, sandbox.cleanup is
\* called (once) and nothing is stored in the cache for the job.
C10_CompileFailure ==
    \A w \in Workers :
        (IsSome(wk[w].job) /\ Has(JobOf(w).id, "compile_failed")) =>
            LET id == JobOf(w).id
                raw == Unwrap(wk[w].raw)
                res == ResultOf(w)
            IN /\ raw.status \in StageStatus \ {"Success", "CompilationError"}
               /\ IsSome(res.compile)
               /\ Unwrap(res.compile).status = "CompilationError"
               /\ Unwrap(res.compile).stdout = raw.stdout
               /\ Unwrap(res.compile).stderr = raw.stderr
               /\ res.run = None
               /\ res.testcases = None
               /\ ~Has(id, "run_single") /\ ~Has(id, "run_testcase")
               /\ Count(trace[id], "cleanup") = 1
               /\ id \notin cgroups
               /\ ~Has(id, "store_begin") /\ ~Has(id, "store")
               /\ cache[calculate_job_hash(ReqOf(w))] = None
                    \/ \E j \in JobIds : j # id /\ Has(j, "store_begin")

\* A compile stage timed out and execute_job returned.
C10_Witness ==
    \E w \in Workers :
        /\ Returned(w)
        /\ Has(JobOf(w).id, "compile_failed")
        /\ Unwrap(wk[w].raw).status = "TimeLimitExceeded"

(***************************************************************************)
(* SpecCache: the workers of the pool take jobs for the same cache key     *)
(* (same language, version and files; compiled language, single run) and   *)
(* interleave freely.  No I/O fault is injected: every lookup, link and    *)
(* copy does what the file system holds at that moment.                    *)
(***************************************************************************)
CacheRequest ==
    [language |-> "compiled", version |-> None, files |-> <<FileRequest(None, "src", None)>>,
     testcases |-> None]

InitCache ==
    /\ InitTasks
    /\ box = BoxIdle
    /\ QueuedBy([i \in 1..MaxJobs |-> CacheRequest])

CacheFaults == {}

CacheStep(w) ==
    \/ pop_job(w)
    \/ Setup(w, CacheFaults)
    \/ CacheLookup(w)
    \/ RestoreOpen(w, CacheFaults)
    \/ RestoreLink(w)
    \/ RestoreDone(w)
    \/ Compile(w, CacheFaults)
    \/ StoreOpen(w, CacheFaults)
    \/ StoreCopy(w, CacheFaults)
    \/ StoreDone(w)
    \/ RunCheck(w)
    \/ RunSingle(w, CacheFaults)
    \/ Finish(w)
    \/ Publish(w)
    \/ SetEx(w)

CacheNext == \E w \in Workers : CacheStep(w)

SpecCache == InitCache /\ [][CacheNext]_vars

\* The tree a completed successful compile of req leaves in the working
\* directory, which copy_dir_recursive stores.
CompiledTree(req) == compile_sh(SourceFiles(req))

\* C6: after the restore of a cache hit the working directory holds the
\* tree stored by a completed successful compile (the entry's .touch
\* marker apart), whatever the other workers storing the same key are doing.
C6_RestoreIsCompleteTree ==
    \A w \in Workers :
        (/\ wk[w].pc = "runcheck"
         /\ wk[w].compile_result = Some(RestoredResult))
        => Unwrap(tempDirs[JobOf(w).id]) \ {TouchFile} = CompiledTree(ReqOf(w))

(***************************************************************************)
(* SpecStage: where StageResults come from.  Either one call of            *)
(* LinuxSandbox::run (as SpecBox), or one worker running one job of any    *)
(* request shape over a compile cache as earlier jobs can have left it:    *)
(* no entry, a complete entry, or the partial entry of an interrupted      *)
(* store.                                                                  *)
(***************************************************************************)
\* The sequences that hold every element of S once.
OrdersOf(S) ==
    {o \in SeqsUpTo(S, Cardinality(S)) :
        Len(o) = Cardinality(S) /\ \A i, j \in 1..Len(o) : i # j => o[i] # o[j]}

CacheLeftBehind(key) ==
    LET req == CHOOSE r \in Requests : calculate_job_hash(r) = key
    IN {None, Some(SourceFiles(req)),
        Some(WriteFile(compile_sh(SourceFiles(req)), TouchFile))}

InitStageJob ==
    /\ inbox = [h \in Handlers |-> <<>>]
    /\ kv = [j \in JobIds |-> None]
    /\ wk = [w \in Workers |-> WorkerIdle]
    /\ tempDirs = [j \in JobIds |-> None]
    /\ cgroups = {}
    /\ trace = [j \in JobIds |-> <<>>]
    /\ box = BoxIdle
    /\ \E req \in Requests : QueuedBy(<<req>>)
    /\ \E c \in [CacheKeys -> UNION {CacheLeftBehind(k) : k \in CacheKeys}] :
         /\ \A k \in CacheKeys : c[k] \in CacheLeftBehind(k)
         /\ cache = c
         /\ \E o \in OrdersOf({k \in CacheKeys : IsSome(c[k])}) :
              cacheTime = [clock |-> Len(o),
                           dir |-> [k \in CacheKeys |->
                                      IF \E i \in 1..Len(o) : o[i] = k
                                        THEN CHOOSE i \in 1..Len(o) : o[i] = k
                                        ELSE 0]]
    /\ gc = GcIdle
    /\ call = CallIdle
    /\ manager = ManagerIdle

InitStage == InitStageJob \/ InitBox

StageNext == JobNext \/ BoxNext

SpecStage == InitStage /\ [][StageNext]_vars

\* Every StageResult a worker holds or has published, and the one
\* monitor_child has returned.
UnwrapAll(o) == IF IsSome(o) THEN {Unwrap(o)} ELSE {}

HeldStages(w) ==
    UnwrapAll(wk[w].raw) \cup UnwrapAll(wk[w].compile_result)
        \cup UnwrapAll(wk[w].single_run_result)
        \cup {wk[w].testcase_results[i].run_details : i \in 1..Len(wk[w].testcase_results)}
        \cup (IF IsSome(wk[w].result) THEN StagesOf(Unwrap(wk[w].result)) ELSE {})

PublishedStages == UNION {StagesOf(Unwrap(kv[j])) : j \in {i \in JobIds : IsSome(kv[i])}}

ReturnedStages == IF box.pc = "returned" THEN {Unwrap(box.result)} ELSE {}

AllStages == PublishedStages \cup ReturnedStages \cup UNION {HeldStages(w) : w \in Workers}

\* C11: every StageResult with status TimeLimitExceeded, returned by
\* sandbox.run, held by a worker or published in a JobResult, has signal
\* "SIGKILL" and exit_code null; and a run that returns through the timeout
\* branch of monitor_child returns TimeLimitExceeded.
C11_TimeLimitExceededShape ==
    /\ [](\A st \in AllStages :
            st.status = "TimeLimitExceeded" =>
                st.signal = Some("SIGKILL") /\ st.exit_code = None)
    /\ [][(box.pc = "timeout_await" /\ box'.pc = "returned") =>
            Unwrap(box'.result).status = "TimeLimitExceeded"]_vars

\* A run stage that timed out has been published.
C11_Witness ==
    \E j \in JobIds :
        /\ IsSome(kv[j])
        /\ IsSome(Unwrap(kv[j]).run)
        /\ Unwrap(Unwrap(kv[j]).run).status = "TimeLimitExceeded"

\* C12: the stdout and the stderr of a StageResult are each at most
\* output_limit_bytes long, whatever bytes the child wrote.  Stated for the
\* result monitor_child returns, which execute_job puts into the JobResult
\* as it is.
C12_OutputWithinLimit ==
    box.pc = "returned" =>
        /\ Unwrap(box.result).stdout <= box.cap
        /\ Unwrap(box.result).stderr <= box.cap

\* C13: a run that returns through the child-exited branch has status
\* Success iff the child exited with code 0, MemoryLimitExceeded iff the
\* child was terminated by signal 9, and RuntimeError otherwise; exit_code
\* is the child's exit code, null when it was signalled; signal is the
\* number of the terminating signal, null on a normal exit.
C13_ExitClassification ==
    [][(box.pc = "exit_await" /\ box'.pc = "returned") =>
         LET fin == box.prog.fin
             res == Unwrap(box'.result)
         IN /\ box.child = "exited"
            /\ res.status = "Success" <=> fin = "exit0"
            /\ res.status = "MemoryLimitExceeded" <=> fin = "sig9"
            /\ res.status \in {"Success", "MemoryLimitExceeded", "RuntimeError"}
            /\ res.exit_code = (CASE fin = "exit0" -> Some(0)
                                  [] fin = "exit1" -> Some(1)
                                  [] OTHER -> None)
            /\ res.signal = (CASE fin = "sig9" -> Some("9")
                               [] fin = "sig11" -> Some("11")
                               [] OTHER -> None)]_vars

\* A child killed by signal 9 whose run returned MemoryLimitExceeded.
C13_Witness ==
    /\ box.pc = "returned"
    /\ box.child = "exited"
    /\ box.prog.fin = "sig9"
    /\ Unwrap(box.result).status = "MemoryLimitExceeded"
    /\ Unwrap(box.result).signal = Some("9")

\* C14: for every TestcaseResult t of a batch job, t.passed holds iff
\* t.run_details.status = Success and the testcase has no expected_output
\* or its trimmed expected_output equals the trimmed actual_output; and
\* actual_output equals run_details.stdout.
C14_PassedIffSuccessAndMatch ==
    \A w \in Workers :
        \A i \in 1..Len(wk[w].testcase_results) :
            LET t == wk[w].testcase_results[i]
                tc == Unwrap(ReqOf(w).testcases)[i]
            IN /\ t.actual_output = t.run_details.stdout
               /\ t.passed <=>
                    /\ t.run_details.status = "Success"
                    /\ \/ tc.expected_output = None
                       \/ Trim(t.actual_output) = Trim(Unwrap(tc.expected_output))

\* The sandbox.run calls of the compile stage and of the run stage, and the
\* events that end the compile stage, as execute_job logs them in trace.
CompileEvents == {"run_compile", "restore"}
RunEvents == {"run_single", "run_testcase"}

\* Every event of A in seq comes before every event of B.
Before(seq, A, B) ==
    \A j \in 1..Len(seq) : seq[j] \in B => \A i \in j..Len(seq) : seq[i] \notin A

\* C15: within a job the compile stage (compile.sh or the cache restore)
\* ends before any sandbox.run of the run stage starts, the testcases run
\* one at a time in request order, every run has ended before
\* publish_result is called, and while a sandbox.run has not returned no
\* other step of the job is taken.
C15_StagesSequential ==
    /\ \A j \in JobIds :
         /\ Before(trace[j], CompileEvents, RunEvents)
         /\ Before(trace[j], CompileEvents \cup RunEvents, {"publish_result"})
         /\ Count(trace[j], "run_compile") <= 1
         /\ Count(trace[j], "run_single") <= 1
         /\ ~(Has(j, "run_single") /\ Has(j, "run_testcase"))
    /\ \A w \in Workers :
         IsSome(wk[w].job) =>
            LET j == JobOf(w).id
                done == wk[w].testcase_results
            IN /\ \A i \in 1..Len(done) : done[i].id = Unwrap(ReqOf(w).testcases)[i].id
               /\ wk[w].pc = "blocked" =>
                    /\ trace[j][Len(trace[j])] \in CompileEvents \cup RunEvents
                    /\ Count(trace[j], "run_testcase") \in {0, Len(done) + 1}
               /\ wk[w].pc # "blocked" =>
                    Count(trace[j], "run_testcase") = Len(done)

\* A compiled batch job with two testcases has run both and is published.
C15_Witness ==
    \E j \in JobIds :
        /\ Has(j, "run_compile")
        /\ Count(trace[j], "run_testcase") = 2
        /\ Has(j, "publish_result")
        /\ IsSome(kv[j])

\* C16: when execute_job has returned, on any path, the job's temp
\* directory does not exist: it was not created or it has been deleted
\* before publish_result is called.
C16_TempDirRemoved ==
    \A w \in Workers : Returned(w) => tempDirs[JobOf(w).id] = None

\* sandbox.init was attempted for job j; it succeeded.
InitAttempted(j) == Has(j, "init") \/ Has(j, "err_init")
InitSucceeded(j) == Has(j, "init")

\* C17: when execute_job has returned for a job whose sandbox.init
\* succeeded, sandbox.cleanup has been called exactly once, after the last
\* sandbox.run of the job; it is called before publish_result, never
\* twice, and never for a job whose init was not attempted.
C17_CleanupExactlyOnce ==
    \A j \in JobIds :
        /\ Count(trace[j], "cleanup") <= 1
        /\ Before(trace[j], CompileEvents \cup RunEvents, {"cleanup"})
        /\ Before(trace[j], {"cleanup"}, {"publish_result"})
        /\ ~InitAttempted(j) => ~Has(j, "cleanup")
        /\ (/\ InitSucceeded(j)
            /\ \/ Has(j, "publish_result")
               \/ \E w \in Workers : Returned(w) /\ JobOf(w).id = j)
           => Count(trace[j], "cleanup") = 1

\* A batch job ran its testcases, cleaned up once and was published.
C17_Witness ==
    \E j \in JobIds :
        /\ InitSucceeded(j)
        /\ Has(j, "run_testcase")
        /\ Count(trace[j], "cleanup") = 1
        /\ Has(j, "publish_result")

(***************************************************************************)
(* The GC task (gc.rs).  CACHE_DIR is the fixed path /tmp/turbo-cache; the *)
(* workers store under <temp_dir>/turbo-cache-<user> (worker.rs 89-90), a  *)
(* path whose last component always has the "-<user>" suffix, so the two   *)
(* roots are different directories.  gc.root is the content of CACHE_DIR:  *)
(* its entry directories with their modification times; nothing in this    *)
(* program creates entries there, so it holds what the environment put.    *)
(* MAX_CACHE_ENTRIES stands for the 500 of gc.rs.                          *)
(***************************************************************************)
MAX_CACHE_ENTRIES == 1

\* Contents of CACHE_DIR: up to MAX_CACHE_ENTRIES + 1 entries of different
\* names (and, here, of different modification times).
GcRoots ==
    LET GcNames == 1..(MAX_CACHE_ENTRIES + 1)
        GcTimes == 1..(MAX_CACHE_ENTRIES + 1)
    IN {{[name |-> n, modified |-> f[n]] : n \in S} :
          S \in SUBSET GcNames,
          f \in {g \in [GcNames -> GcTimes] : \A a, b \in GcNames : a # b => g[a] # g[b]}}

\* cache_items.sort_by(|a, b| a.1.cmp(&b.1)): oldest first.
RECURSIVE SortByModified(_)
SortByModified(items) ==
    IF items = {} THEN <<>>
    ELSE LET oldest == CHOOSE e \in items : \A x \in items : e.modified <= x.modified
         IN <<oldest>> \o SortByModified(items \ {oldest})

\* run_gc_pass, lines 28-49: list the entry directories, return if there
\* are at most MAX_CACHE_ENTRIES, else sort and take the oldest.
GcScan ==
    /\ gc.pc = "sleep"
    /\ LET cache_items == gc.root
           to_remove == Cardinality(cache_items) - MAX_CACHE_ENTRIES
       IN gc' = IF Cardinality(cache_items) <= MAX_CACHE_ENTRIES
                  THEN [gc EXCEPT !.pc = "done"]
                  ELSE [gc EXCEPT !.pc = "remove",
                                  !.pending = SubSeq(SortByModified(cache_items), 1, to_remove)]
    /\ UNCHANGED <<queue, kv, inbox, hs, nextId, wk, tempDirs, cgroups, cache, trace,
                   box, cacheTime, call, manager>>

\* run_gc_pass, lines 52-56: fs::remove_dir_all of the next entry.
GcRemove ==
    /\ gc.pc = "remove"
    /\ gc.pending # <<>>
    /\ gc' = [gc EXCEPT !.root = @ \ {Head(gc.pending)},
                        !.pending = Tail(@),
                        !.pc = IF Tail(gc.pending) = <<>> THEN "done" ELSE "remove"]
    /\ UNCHANGED <<queue, kv, inbox, hs, nextId, wk, tempDirs, cgroups, cache, trace,
                   box, cacheTime, call, manager>>

\* start_gc, lines 19-24: the pass has returned; sleep GC_INTERVAL.
GcSleep ==
    /\ gc.pc = "done"
    /\ gc' = [gc EXCEPT !.pc = "sleep"]
    /\ UNCHANGED <<queue, kv, inbox, hs, nextId, wk, tempDirs, cgroups, cache, trace,
                   box, cacheTime, call, manager>>

(***************************************************************************)
(* SpecGc: one worker and the GC task.  The worker runs single-run jobs of *)
(* the languages that have a compile.sh, from an empty cache.              *)
(***************************************************************************)
GcRequests == {r \in Requests : HasCompileScript(r.language) /\ r.testcases = None}

InitGc ==
    /\ inbox = [h \in Handlers |-> <<>>]
    /\ kv = [i \in JobIds |-> None]
    /\ wk = [w \in Workers |-> WorkerIdle]
    /\ tempDirs = [i \in JobIds |-> None]
    /\ cgroups = {}
    /\ cache = [k \in CacheKeys |-> None]
    /\ trace = [i \in JobIds |-> <<>>]
    /\ cacheTime = NoCacheTime
    /\ \E root \in GcRoots : gc = [GcIdle EXCEPT !.root = root]
    /\ call = CallIdle
    /\ manager = ManagerIdle
    /\ box = BoxIdle
    /\ \E reqs \in SeqsUpTo(GcRequests, MaxJobs) : Len(reqs) = MaxJobs /\ QueuedBy(reqs)

GcNext ==
    \/ GcScan
    \/ GcRemove
    \/ GcSleep
    \/ CacheStep(JobWorker)

SpecGc ==
    /\ InitGc
    /\ [][GcNext]_vars

\* The entry directories of the workers' cache root.
CacheEntries == {k \in CacheKeys : IsSome(cache[k])}

\* C18: at the step that completes a GC pass, the cache root the workers
\* store into holds at most MAX_CACHE_ENTRIES entry directories.
C18_CacheBounded ==
    [][(gc.pc # "done" /\ gc'.pc = "done")
         => Cardinality(CacheEntries) <= MAX_CACHE_ENTRIES]_vars

\* C19: a cache hit refreshes the modification time the GC sorts by: the
\* step that completes the restore of a hit gives the entry directory a
\* modification time later than the one it had.
C19_HitRefreshesMtime ==
    [][\A w \in Workers :
         (/\ wk[w].pc = "restore_link"
          /\ wk'[w].pc = "runcheck"
          /\ wk'[w].compile_result = Some(RestoredResult))
         => cacheTime'.dir[Unwrap(wk[w].cache_path)]
              > cacheTime.dir[Unwrap(wk[w].cache_path)]]_vars

(***************************************************************************)
(* SpecRoundTrip: one worker, no I/O fault, an empty cache, and jobs of a  *)
(* compiled language whose files differ in name and content: each entry    *)
(* the worker restores was stored whole by an earlier job, and no other    *)
(* task touches the cache.                                                 *)
(***************************************************************************)
RoundTripFiles ==
    {<<FileRequest(None, "src", None)>>,
     <<FileRequest(Some("a"), "bc", None)>>,
     <<FileRequest(Some("ab"), "c", None)>>,
     <<FileRequest(Some("ab"), "c", None), FileRequest(Some("a"), "bc", None)>>}

RoundTripRequests ==
    [language : {"compiled"}, version : {None}, files : RoundTripFiles,
     testcases : {None}]

InitRoundTrip ==
    /\ inbox = [h \in Handlers |-> <<>>]
    /\ kv = [i \in JobIds |-> None]
    /\ wk = [w \in Workers |-> WorkerIdle]
    /\ tempDirs = [i \in JobIds |-> None]
    /\ cgroups = {}
    /\ cache = [k \in {calculate_job_hash(r) : r \in RoundTripRequests} |-> None]
    /\ trace = [i \in JobIds |-> <<>>]
    /\ cacheTime = [clock |-> 0, dir |-> [k \in DOMAIN cache |-> 0]]
    /\ gc = GcIdle
    /\ call = CallIdle
    /\ manager = ManagerIdle
    /\ box = BoxIdle
    /\ \E reqs \in SeqsUpTo(RoundTripRequests, MaxJobs) :
         Len(reqs) = MaxJobs /\ QueuedBy(reqs)

RoundTripNext == CacheStep(JobWorker)

SpecRoundTrip == InitRoundTrip /\ [][RoundTripNext]_vars

\* C20: when a restore is done, the working directory of the job is the
\* stored entry: the same files, each with the content the entry has.
C20_RoundTrip ==
    \A w \in Workers :
        (/\ wk[w].pc = "runcheck"
         /\ wk[w].compile_result = Some(RestoredResult))
        => Unwrap(tempDirs[JobOf(w).id]) = Unwrap(cache[Unwrap(wk[w].cache_path)])

\* The version the package.yaml of the runtime directory of lang declares
\* (PackageYaml.version): the version of the runtime that
\* <runtimes_dir>/<lang>/latest resolves to.
PackageYamlVersion(lang) == "1.0.0"

\* C22: every published JobResult carries the version of the resolved
\* runtime: never the empty string, never the placeholder "latest" of a
\* request without version, and, where a runtime with a valid package.yaml
\* was resolved, the version that package.yaml declares.
C22_ResultNamesResolvedRuntime ==
    \A j \in JobIds :
        IsSome(kv[j]) =>
            /\ Unwrap(kv[j]).version \notin {"", "latest"}
            /\ PackageYamlValid(Unwrap(kv[j]).language)
                 => Unwrap(kv[j]).version = PackageYamlVersion(Unwrap(kv[j]).language)

(***************************************************************************)
(* SpecHttp: handlers and one worker over a broker whose operations can    *)
(* fail: push_job, wait_for_result and publish_result may return an error. *)
(* FairSpecHttp: every handler goes on while wait_for_result has a step to *)
(* take, and the worker goes on; that an operation fails, or that the      *)
(* broker closes a subscription, is up to the broker.                      *)
(***************************************************************************)
HttpRequests == {r \in Requests : r.language = "script" /\ r.testcases = None}

HttpFaults == {}

HandlerWaitStep(h) ==
    \/ WaitSubscribe(h)
    \/ WaitGet(h)
    \/ WaitRecv(h)

HttpWorkerStep(w) ==
    \/ pop_job(w)
    \/ Setup(w, HttpFaults)
    \/ CacheLookup(w)
    \/ RunCheck(w)
    \/ RunSingle(w, HttpFaults)
    \/ Finish(w)
    \/ Publish(w)
    \/ SetEx(w)
    \/ PublishFails(w)

HttpNext ==
    \/ \E h \in Handlers, req \in HttpRequests : ExecutePush(h, req)
    \/ \E h \in Handlers : ExecutePushFails(h)
    \/ \E h \in Handlers : HandlerWaitStep(h)
    \/ \E h \in Handlers : WaitFails(h)
    \/ HttpWorkerStep(JobWorker)

SpecHttp == Init /\ [][HttpNext]_vars

FairSpecHttp ==
    /\ SpecHttp
    /\ \A h \in Handlers : WF_vars(HandlerWaitStep(h))
    /\ WF_vars(HttpWorkerStep(JobWorker))

\* C25: the handler's wait is bounded: a handler that has called
\* wait_for_result gets out of it, with a result or an error, and the
\* request is answered.
C25_WaitIsBounded ==
    \A h \in Handlers :
        (hs[h].pc \in {"subscribe", "get", "recv"}) ~> (hs[h].pc = "done")

\* The result wait_for_result has at hand for handler h: the stored value
\* it GETs, or the next message of its subscription.
Yielded(h) ==
    IF hs[h].pc = "get" /\ IsSome(kv[hs[h].id]) THEN {Unwrap(kv[hs[h].id])}
    ELSE IF hs[h].pc = "recv" /\ inbox[h] # <<>> THEN {Head(inbox[h])}
    ELSE {}

\* C26: a response is given once; it is 200 with the JobResult as body
\* exactly when wait_for_result yields that result, whatever the statuses
\* in it, and otherwise it is a 500, given only when push_job or
\* wait_for_result returned an error; the body of a 200 is a result that a
\* worker handed to publish_result for the job of that handler.
C26_StatusOfResponse ==
    /\ [][\A h \in Handlers :
            hs'[h].response # hs[h].response =>
                /\ hs[h].response = None
                /\ hs'[h].pc = "done"
                /\ LET r == Unwrap(hs'[h].response)
                   IN \/ r.status = 200 /\ r.body \in Yielded(h)
                      \/ /\ r.status = 500
                         /\ \/ hs[h].pc = "idle" /\ r.body = "Queue error"
                                  /\ queue' = queue
                            \/ hs[h].pc \in {"subscribe", "get", "recv"}
                                  /\ r.body = "Execution timeout or error"]_vars
    /\ [](\A h \in Handlers :
            (IsSome(hs[h].response) /\ Unwrap(hs[h].response).status # 500) =>
                /\ Unwrap(hs[h].response).status = 200
                /\ Has(hs[h].id, "publish_result"))

\* One request was answered 200 with a synthetic failure as body, another
\* 500.
C26_Witness ==
    \E h1, h2 \in Handlers :
        /\ IsSome(hs[h1].response)
        /\ Unwrap(hs[h1].response).status = 200
        /\ Unwrap(Unwrap(hs[h1].response).body.run).status = "RuntimeError"
        /\ IsSome(hs[h2].response)
        /\ Unwrap(hs[h2].response).status = 500

(***************************************************************************)
(* SpecFn: the functions of the program that compute a result from their   *)
(* arguments and the files they read.  call holds the function's name and  *)
(* input; the step of the function adds its result.                        *)
(***************************************************************************)
MaxFiles == 2

\* The tasks are idle: nothing but call is in use.
InitNoTask ==
    /\ inbox = [h \in Handlers |-> <<>>]
    /\ kv = [i \in JobIds |-> None]
    /\ wk = [w \in Workers |-> WorkerIdle]
    /\ tempDirs = [i \in JobIds |-> None]
    /\ cgroups = {}
    /\ cache = [k \in CacheKeys |-> None]
    /\ trace = [i \in JobIds |-> <<>>]
    /\ cacheTime = NoCacheTime
    /\ gc = GcIdle
    /\ box = BoxIdle
    /\ queue = <<>>
    /\ hs = [h \in Handlers |-> HandlerIdle]
    /\ nextId = 1

\* The step of the function of call: input in, result out.
Returns(op, result) ==
    /\ call.op = op
    /\ call.out = None
    /\ call' = [call EXCEPT !.out = Some(result)]
    /\ UNCHANGED <<queue, kv, inbox, hs, nextId, wk, tempDirs, cgroups, cache, trace,
                   box, cacheTime, gc, manager>>

\* The rearrangements of a sequence.
Reorderings(seq) ==
    {[i \in 1..Len(seq) |-> seq[p[i]]] :
        p \in {q \in [1..Len(seq) -> 1..Len(seq)] :
                 \A i, j \in 1..Len(seq) : i # j => q[i] # q[j]}}

\* Two requests for calculate_job_hash: the same language, versions that
\* are equal once an absent one is read as "latest", and the same files in
\* any two orders.
HashFileRequests ==
    {FileRequest(n, c, None) : n \in {None, Some("a"), Some("main")}, c \in {"x", "y"}}

HashInputs ==
    {<<[language |-> "compiled", version |-> v1, files |-> f1, testcases |-> None],
       [language |-> "compiled", version |-> v2, files |-> f2, testcases |-> None]>> :
        v1 \in {None, Some("latest")}, v2 \in {None, Some("latest")},
        f1 \in SeqsUpTo(HashFileRequests, MaxFiles),
        f2 \in SeqsUpTo(HashFileRequests, MaxFiles)}

InitHash ==
    \E in \in HashInputs :
        /\ in[2].files \in Reorderings(in[1].files)
        /\ call = [op |-> "calculate_job_hash", in |-> in, out |-> None]

HashCall ==
    Returns("calculate_job_hash",
            <<calculate_job_hash(call.in[1]), calculate_job_hash(call.in[2])>>)

(***************************************************************************)
(* PackageRepository (turbo-pkg repository.rs) over a package directory    *)
(* <root>/<name>: pkg is None when the directory is missing, else Some of  *)
(* the names of its subdirectories, each holding a valid package.yaml.     *)
(***************************************************************************)
\* Version::parse on the directory names in use: the semver triple, or
\* None for a name that is no semver version.
SemverTable ==
    {<<"1.2.0", <<1, 2, 0>>>>, <<"1.10.0", <<1, 10, 0>>>>, <<"2.0.0", <<2, 0, 0>>>>}

DirNames == {t[1] : t \in SemverTable} \cup {"latest", "beta"}

VersionParse(name) ==
    IF \E t \in SemverTable : t[1] = name
      THEN Some((CHOOSE t \in SemverTable : t[1] = name)[2])
      ELSE None

\* Version::to_string
VersionToString(ver) == (CHOOSE t \in SemverTable : t[2] = ver)[1]

\* The order of semver::Version: major, then minor, then patch.
VersionLeq(a, b) ==
    \/ a[1] < b[1]
    \/ a[1] = b[1] /\ a[2] < b[2]
    \/ a[1] = b[1] /\ a[2] = b[2] /\ a[3] <= b[3]

ResolveErr == [ok |-> FALSE]
ResolveOk(dir) == [ok |-> TRUE, path |-> dir]

\* find_latest_version: the parseable subdirectory names, sorted; the last.
find_latest_version(dirs) ==
    LET versions == {Unwrap(VersionParse(d)) : d \in {e \in dirs : IsSome(VersionParse(e))}}
    IN IF versions = {} THEN None
       ELSE Some(VersionToString(CHOOSE v \in versions :
                                    \A u \in versions : VersionLeq(u, v)))

\* resolve(name, version)
resolve(pkg, version) ==
    IF ~IsSome(pkg) THEN ResolveErr
    ELSE LET dirs == Unwrap(pkg)
             version_str == IF IsSome(version) THEN version
                            ELSE find_latest_version(dirs)
         IN IF ~IsSome(version_str) THEN ResolveErr
            ELSE IF Unwrap(version_str) \notin dirs THEN ResolveErr
            ELSE ResolveOk(Unwrap(version_str))

InitResolve ==
    \E pkg \in {None} \cup {Some(d) : d \in SUBSET DirNames},
       version \in {None, Some("latest"), Some("1.2.0"), Some("2.0.0")} :
        call = [op |-> "resolve", in |-> [pkg |-> pkg, version |-> version], out |-> None]

ResolveCall == Returns("resolve", resolve(call.in.pkg, call.in.version))

\* The package names in use, in the byte order of their strings.
PackageNames == <<"c", "py">>

\* The comparator of list_all (repository.rs 90-100): by name, then by
\* parsed version, ascending.  A pair is <<index of the name, version>>.
ListAllLeq(a, b) ==
    \/ a[1] < b[1]
    \/ a[1] = b[1] /\ VersionLeq(Unwrap(VersionParse(a[2])), Unwrap(VersionParse(b[2])))

\* packages.sort_by(...)
RECURSIVE ListAllSort(_)
ListAllSort(pairs) ==
    IF pairs = {} THEN <<>>
    ELSE LET first == CHOOSE p \in pairs : \A q \in pairs : ListAllLeq(p, q)
         IN <<first>> \o ListAllSort(pairs \ {first})

\* list_all over a root that holds, for each package name, the
\* subdirectories root[i]: the pairs with a semver-parseable version name,
\* sorted.
list_all(root) ==
    LET packages == {p \in (DOMAIN root) \X DirNames :
                        p[2] \in root[p[1]] /\ IsSome(VersionParse(p[2]))}
        sorted == ListAllSort(packages)
    IN [k \in 1..Len(sorted) |-> <<PackageNames[sorted[k][1]], sorted[k][2]>>]

InitListAll ==
    \E root \in [1..Len(PackageNames) -> SUBSET {"1.2.0", "1.10.0", "beta"}] :
        call = [op |-> "list_all", in |-> root, out |-> None]

ListAllCall == Returns("list_all", list_all(call.in))

(***************************************************************************)
(* command.spawn() with the pre_exec hook of prepare_command (linux.rs     *)
(* 220-254).  The input says which of the hook's system calls fail in the  *)
(* child and whether limits.uid and limits.gid are set; the result says    *)
(* what spawn returns, whether the command was executed, and in what state *)
(* of the child.                                                           *)
(***************************************************************************)
PreExecSteps == {"unshare", "setrlimit", "setgid", "setuid", "cgroup.procs"}

\* The hook: Ok (TRUE) or Err (FALSE).  unshare and the write to
\* cgroup.procs return their error; the results of setrlimit, setgid and
\* setuid are dropped.
pre_exec(fails) == "unshare" \notin fails /\ "cgroup.procs" \notin fails

spawn(in) ==
    [spawn |-> IF pre_exec(in.fails) THEN "Ok" ELSE "Err",
     exec |-> pre_exec(in.fails),
     nofile |-> "setrlimit" \notin in.fails,
     gid_set |-> in.gid /\ "setgid" \notin in.fails,
     uid_set |-> in.uid /\ "setuid" \notin in.fails,
     in_cgroup |-> "cgroup.procs" \notin in.fails]

InitSpawn ==
    \E fails \in SUBSET PreExecSteps, uid \in BOOLEAN, gid \in BOOLEAN :
        call = [op |-> "spawn", in |-> [fails |-> fails, uid |-> uid, gid |-> gid],
                out |-> None]

SpawnCall == Returns("spawn", spawn(call.in))

(***************************************************************************)
(* execute_job, lines 60-65, on its own: the files of a request written    *)
(* into an empty temp directory.                                           *)
(***************************************************************************)
Encodings == {None, Some("utf8"), Some("base64"), Some("hex")}

EncodedFileRequests ==
    {FileRequest(n, c, e) : n \in {None, Some("a")}, c \in {"YQ==", "61"},
                            e \in Encodings}

InitWriteFiles ==
    \E files \in SeqsUpTo(EncodedFileRequests, MaxFiles) :
        call = [op |-> "write_files", in |-> files, out |-> None]

WriteFilesCall == Returns("write_files", WriteFiles({}, call.in))

\* Two requests of one language and version for calculate_job_hash, with
\* any files.
InitPreimage ==
    \E f1 \in RoundTripFiles, f2 \in RoundTripFiles :
        call = [op |-> "hash_preimage",
                in |-> <<[language |-> "compiled", version |-> None, files |-> f1,
                          testcases |-> None],
                         [language |-> "compiled", version |-> None, files |-> f2,
                          testcases |-> None]>>,
                out |-> None]

PreimageCall ==
    Returns("hash_preimage",
            <<calculate_job_hash(call.in[1]), calculate_job_hash(call.in[2])>>)

InitFn ==
    /\ InitNoTask
    /\ manager = ManagerIdle
    /\ \/ InitHash
       \/ InitResolve
       \/ InitListAll
       \/ InitSpawn
       \/ InitWriteFiles
       \/ InitPreimage

FnNext ==
    \/ HashCall
    \/ ResolveCall
    \/ ListAllCall
    \/ SpawnCall
    \/ WriteFilesCall
    \/ PreimageCall

SpecFn == InitFn /\ [][FnNext]_vars

\* C21: two requests with equal language, equal version (absent read as
\* "latest"), the same compile script and the same files in any order get
\* the same key.
C21_HashDeterministic ==
    (call.op = "calculate_job_hash" /\ IsSome(call.out))
        => Unwrap(call.out)[1] = Unwrap(call.out)[2]

\* The subdirectory of pkg with the greatest semver version, if any.
GreatestVersion(pkg) ==
    IF ~IsSome(pkg) THEN None
    ELSE LET parseable == {d \in Unwrap(pkg) : IsSome(VersionParse(d))}
         IN IF parseable = {} THEN None
            ELSE Some(CHOOSE d \in parseable :
                        \A e \in parseable :
                            VersionLeq(Unwrap(VersionParse(e)), Unwrap(VersionParse(d))))

\* C23: resolve with version absent or "latest" returns the subdirectory of
\* the greatest semver version, and fails when the package directory is
\* missing or holds no semver-named subdirectory; with any other version it
\* returns that subdirectory, and fails when it does not exist.
C23_ResolveLatest ==
    (call.op = "resolve" /\ IsSome(call.out)) =>
        LET pkg == call.in.pkg
            version == call.in.version
            out == Unwrap(call.out)
        IN IF version \in {None, Some("latest")}
             THEN IF IsSome(GreatestVersion(pkg))
                    THEN out = ResolveOk(Unwrap(GreatestVersion(pkg)))
                    ELSE out = ResolveErr
             ELSE IF IsSome(pkg) /\ Unwrap(version) \in Unwrap(pkg)
                    THEN out = ResolveOk(Unwrap(version))
                    ELSE out = ResolveErr

\* C29: list_all returns every (name, version) pair with a semver version
\* directory and no other, each once, sorted by name ascending and, within
\* one name, by version descending.
C29_ListAllNewestFirst ==
    (call.op = "list_all" /\ IsSome(call.out)) =>
        LET root == call.in
            out == Unwrap(call.out)
            NameIndex(n) == CHOOSE i \in 1..Len(PackageNames) : PackageNames[i] = n
        IN /\ {out[k] : k \in 1..Len(out)} =
                {p \in {PackageNames[i] : i \in DOMAIN root} \X DirNames :
                    p[2] \in root[NameIndex(p[1])] /\ IsSome(VersionParse(p[2]))}
           /\ \A k, l \in 1..Len(out) : k < l =>
                /\ out[k] # out[l]
                /\ NameIndex(out[k][1]) <= NameIndex(out[l][1])
                /\ out[k][1] = out[l][1] =>
                     VersionLeq(Unwrap(VersionParse(out[l][2])),
                                Unwrap(VersionParse(out[k][2])))

\* The steps of the hook that are attempted and fail: setgid and setuid
\* are attempted only with limits.gid and limits.uid set.
FailedSteps(in) ==
    {st \in in.fails :
        /\ st = "setgid" => in.gid
        /\ st = "setuid" => in.uid}

\* C24: when a step of the pre-exec hook fails the command is not executed
\* and spawn returns an error; so the command never runs with a uid or gid
\* that was to be dropped, without its file-descriptor limit, or outside
\* the job cgroup.
C24_HookFailureAbortsSpawn ==
    (call.op = "spawn" /\ IsSome(call.out)) =>
        LET in == call.in
            out == Unwrap(call.out)
        IN /\ FailedSteps(in) # {} => (out.spawn = "Err" /\ ~out.exec)
           /\ out.exec =>
                /\ out.nofile
                /\ in.gid => out.gid_set
                /\ in.uid => out.uid_set
                /\ out.in_cgroup


(***************************************************************************)
(* The statuses of published stage results.                                *)
(***************************************************************************)
PublishedStatuses ==
    {"Success", "RuntimeError", "CompilationError", "TimeLimitExceeded",
     "MemoryLimitExceeded"}

\* The stage results of a JobResult outside its compile field.
RunStagesOf(res) == StagesOf([res EXCEPT !.compile = None])

\* C27: no StageResult in a published JobResult (compile, run or a
\* testcase's run_details) has status OutputLimitExceeded, Pending or
\* Running: every published status is Success, RuntimeError,
\* CompilationError, TimeLimitExceeded or MemoryLimitExceeded, and
\* CompilationError appears only in the compile field.
C27_PublishedStatuses ==
    \A j \in JobIds :
        IsSome(kv[j]) =>
            /\ \A s \in StagesOf(Unwrap(kv[j])) : s.status \in PublishedStatuses
            /\ \A s \in RunStagesOf(Unwrap(kv[j])) : s.status # "CompilationError"

\* A published result whose compile stage was restored from the cache and
\* whose testcases ran, one of them ending in a sandbox error.
C27_Witness ==
    \E j \in JobIds :
        /\ IsSome(kv[j])
        /\ IsSome(Unwrap(kv[j]).compile)
        /\ Unwrap(Unwrap(kv[j]).compile) = RestoredResult
        /\ SandboxErrorResult \in RunStagesOf(Unwrap(kv[j]))


\* What the declared encoding makes of a content: the content itself for
\* utf8 or no encoding, the decoded bytes for base64 and hex, None when the
\* content is not of the declared encoding.
Decoded(content, encoding) ==
    IF encoding \in {None, Some("utf8")} THEN Some(content)
    ELSE IF encoding = Some("base64")
      THEN (IF content = "YQ==" THEN Some("a") ELSE None)
    ELSE IF content = "61" THEN Some("a") ELSE None

\* C28: each file of the request is in the temp directory under its name
\* ("main" when absent), and the file last written under a name holds the
\* request content decoded according to its declared encoding: verbatim
\* for utf8 or none, base64-decoded for base64, hex-decoded for hex.
C28_FilesDecoded ==
    (call.op = "write_files" /\ IsSome(call.out)) =>
        \A i \in 1..Len(call.in) :
            LET file == call.in[i]
                dir == Unwrap(call.out)
                last == \A j \in (i+1)..Len(call.in) :
                            FileName(call.in[j]) # FileName(file)
            IN /\ FileName(file) \in FileNames(dir)
               /\ (last /\ IsSome(Decoded(file.content, file.encoding)))
                     => FileAt(dir, FileName(file)).content
                            = Unwrap(Decoded(file.content, file.encoding))


(***************************************************************************)
(* LinuxSandbox::init (turbo-box linux.rs 62-112), one file system call    *)
(* at a time, called by the workers for their jobs.  manager.exists: the   *)
(* manager cgroup directory exists; manager.subtree_control: its           *)
(* cgroup.subtree_control holds cpu, memory and pids, so that the job      *)
(* cgroups below it have memory.max, memory.swap.max and pids.max;         *)
(* manager.jobs: the job cgroups; manager.init[w]: where worker w is in    *)
(* init, and for which job.                                                *)
(***************************************************************************)
ManagerFrame ==
    UNCHANGED <<queue, kv, inbox, hs, nextId, wk, tempDirs, cgroups, cache, trace,
                box, cacheTime, gc, call>>

InitAt(w, pc) == manager.init[w].pc = pc

InitGoto(w, pc) == [manager EXCEPT !.init[w].pc = pc]

\* execute_job calls sandbox.init(job_id) (worker.rs 81).
InitBegin(w) ==
    /\ InitAt(w, "none")
    /\ \E id \in JobIds \ manager.started :
         manager' = [manager EXCEPT !.init[w] = [pc |-> "check", id |-> id],
                                    !.started = @ \cup {id}]
    /\ ManagerFrame

\* if !manager_path.exists() (line 71).
ManagerExists(w) ==
    /\ InitAt(w, "check")
    /\ manager' = InitGoto(w, IF manager.exists THEN "job_dir" ELSE "create_manager")
    /\ ManagerFrame

\* fs::create_dir_all(&manager_path) (lines 72-77): Ok also when the
\* directory exists by now.
CreateManager(w) ==
    /\ InitAt(w, "create_manager")
    /\ manager' = [InitGoto(w, "enable") EXCEPT !.exists = TRUE]
    /\ ManagerFrame

\* write_cgroup_file(subtree_control, "+cpu +memory +pids") (lines 80-90):
\* an error is logged and init goes on.
EnableControllers(w) ==
    /\ InitAt(w, "enable")
    /\ \/ manager' = [InitGoto(w, "job_dir") EXCEPT !.subtree_control = TRUE]
       \/ manager' = [InitGoto(w, "job_dir") EXCEPT !.enable_failed = TRUE]
    /\ ManagerFrame

\* fs::create_dir(&job_path) unless it exists (lines 93-102).
CreateJobCgroup(w) ==
    /\ InitAt(w, "job_dir")
    /\ manager' = [InitGoto(w, "memory.max") EXCEPT !.jobs = @ \cup {manager.init[w].id}]
    /\ ManagerFrame

\* The limit files of a job cgroup, in the order init writes them, and what
\* follows the last.
LimitFiles == <<"memory.max", "memory.swap.max", "pids.max", "ok">>

\* write_cgroup_file(job_path.join(file), ..)? (lines 105-110): the file
\* is opened without create, and the job cgroup has it only while the
\* manager's subtree_control holds the controller.
WriteLimit(w) ==
    /\ \E i \in 1..3 :
         /\ InitAt(w, LimitFiles[i])
         /\ manager' = InitGoto(w, IF manager.subtree_control
                                     THEN LimitFiles[i + 1] ELSE "err")
    /\ ManagerFrame

\* init has returned Ok(()) or Err; the worker goes on to its next job.
InitReturned(w) ==
    /\ manager.init[w].pc \in {"ok", "err"}
    /\ manager' = [manager EXCEPT !.init[w] = InitIdle]
    /\ ManagerFrame

\* The manager cgroup before the first init: missing, left behind without
\* controllers, or configured.
InitManager ==
    /\ InitNoTask
    /\ call = CallIdle
    /\ \E exists \in BOOLEAN, subtree_control \in BOOLEAN :
         /\ subtree_control => exists
         /\ manager = [ManagerIdle EXCEPT !.exists = exists,
                                          !.subtree_control = subtree_control]

ManagerStep(w) ==
    \/ InitBegin(w)
    \/ ManagerExists(w)
    \/ CreateManager(w)
    \/ EnableControllers(w)
    \/ CreateJobCgroup(w)
    \/ WriteLimit(w)
    \/ InitReturned(w)

ManagerNext == \E w \in Workers : ManagerStep(w)

SpecManager == InitManager /\ [][ManagerNext]_vars

\* C30: in every interleaving of init calls, whether the manager cgroup
\* was missing or existed unconfigured before the first of them, the
\* manager's controllers are enabled before any worker writes memory.max,
\* memory.swap.max or pids.max into its job cgroup, and no init fails,
\* unless a write of cgroup.subtree_control itself failed.
C30_ControllersBeforeLimits ==
    manager.enable_failed
      \/ \A w \in Workers :
            /\ manager.init[w].pc \in {"memory.max", "memory.swap.max", "pids.max"}
                  => manager.subtree_control
            /\ manager.init[w].pc # "err"


(***************************************************************************)
(* The pre_exec hook of prepare_command (turbo-box linux.rs 220-254), one  *)
(* system call at a time, in the child that command.spawn() forked from    *)
(* the server (which runs as root: it creates and writes the cgroups).     *)
(* call.in: limits.uid and limits.gid; call.euid, call.egid: the child's   *)
(* credentials; call.done: the system calls made so far; call.faults: the  *)
(* calls that failed for a reason outside the hook (no capability, no      *)
(* resources).  The kernel's part: setgid and setuid need euid 0 to change *)
(* to another id, and cgroup.procs of the job cgroup, created by the       *)
(* server, is owned by root with mode 0644, so that open for writing needs *)
(* euid 0.                                                                 *)
(***************************************************************************)
Root == 0
Nobody == 65534

HookIds == {None, Some(Root), Some(Nobody)}

\* The system calls of the hook in the order of its statements.
HookOrder_UidFirst == <<"unshare", "setrlimit", "setuid", "setgid", "cgroup.procs">>

HookOrder == <<"unshare", "setrlimit", "setgid", "setuid", "cgroup.procs">>

\* The hook is about to make the system call name (or has returned: "ok",
\* "err"; or is over: "exec", "exit").
HookAt(name) ==
    /\ call.op = "pre_exec"
    /\ call.pc = name

\* What a system call of the hook leaves in call: the call is recorded,
\* and a failure is recorded as coming from outside when it does.
HookDid(name, fault, pc) ==
    [call EXCEPT !.done = Append(@, name),
                 !.faults = IF fault THEN @ \cup {name} ELSE @,
                 !.pc = pc]

HookFrame ==
    UNCHANGED <<queue, kv, inbox, hs, nextId, wk, tempDirs, cgroups, cache, trace,
                box, cacheTime, gc, manager>>

\* What follows the system call name: the next one, or the hook's Ok(()).
HookAfter(name) ==
    LET k == CHOOSE i \in 1..Len(HookOrder) : HookOrder[i] = name
    IN IF k = Len(HookOrder) THEN "ok" ELSE HookOrder[k + 1]

\* 1. unshare(NEWNET | NEWNS | NEWIPC | NEWUTS): an error is returned from
\* the hook (lines 222-230).
HookUnshare ==
    /\ HookAt("unshare")
    /\ \/ call' = [HookDid("unshare", FALSE, HookAfter(call.pc)) EXCEPT !.unshared = TRUE]
       \/ call' = HookDid("unshare", TRUE, "err")
    /\ HookFrame

\* 2. let _ = setrlimit(RLIMIT_NOFILE, ..) (lines 232-238).
HookSetrlimit ==
    /\ HookAt("setrlimit")
    /\ \/ call' = [HookDid("setrlimit", FALSE, HookAfter(call.pc)) EXCEPT !.nofile = TRUE]
       \/ call' = HookDid("setrlimit", TRUE, HookAfter(call.pc))
    /\ HookFrame

\* 3. if let Some(g) = gid { let _ = setgid(g) } (lines 240-242).
HookSetgid ==
    /\ HookAt("setgid")
    /\ IF IsSome(call.in.gid)
         THEN IF call.euid = Root \/ Unwrap(call.in.gid) = call.egid
                THEN call' = [HookDid("setgid", FALSE, HookAfter(call.pc))
                                EXCEPT !.egid = Unwrap(call.in.gid)]
                ELSE call' = HookDid("setgid", FALSE, HookAfter(call.pc))
         ELSE call' = [call EXCEPT !.pc = HookAfter(call.pc)]
    /\ HookFrame

\* if let Some(u) = uid { let _ = setuid(u) } (lines 243-245).
HookSetuid ==
    /\ HookAt("setuid")
    /\ IF IsSome(call.in.uid)
         THEN IF call.euid = Root \/ Unwrap(call.in.uid) = call.euid
                THEN call' = [HookDid("setuid", FALSE, HookAfter(call.pc))
                                EXCEPT !.euid = Unwrap(call.in.uid)]
                ELSE call' = HookDid("setuid", FALSE, HookAfter(call.pc))
         ELSE call' = [call EXCEPT !.pc = HookAfter(call.pc)]
    /\ HookFrame

\* 4. open cgroup.procs for writing and write "0"; both errors are returned
\* from the hook (lines 248-251).
HookAttach ==
    /\ HookAt("cgroup.procs")
    /\ IF call.euid = Root
         THEN \/ call' = [HookDid("cgroup.procs", FALSE, HookAfter(call.pc))
                            EXCEPT !.in_cgroup = TRUE]
              \/ call' = HookDid("cgroup.procs", TRUE, "err")
         ELSE call' = HookDid("cgroup.procs", FALSE, "err")
    /\ HookFrame

\* The hook returned Ok(()): the child executes the command, and spawn
\* returns Ok to run.
HookExec ==
    /\ HookAt("ok")
    /\ call' = [call EXCEPT !.pc = "exec", !.out = Some("Ok")]
    /\ HookFrame

\* The hook returned Err: the child exits without executing the command,
\* and spawn returns the error to run (line 133).
HookErr ==
    /\ HookAt("err")
    /\ call' = [call EXCEPT !.pc = "exit", !.out = Some("Err")]
    /\ HookFrame

InitHook ==
    /\ InitNoTask
    /\ manager = ManagerIdle
    /\ \E uid \in HookIds, gid \in HookIds :
         call = [op |-> "pre_exec", in |-> [uid |-> uid, gid |-> gid], pc |-> HookOrder[1],
                 euid |-> Root, egid |-> Root, unshared |-> FALSE, nofile |-> FALSE,
                 in_cgroup |-> FALSE, done |-> <<>>, faults |-> {}, out |-> None]

HookNext ==
    \/ HookUnshare
    \/ HookSetrlimit
    \/ HookSetgid
    \/ HookSetuid
    \/ HookAttach
    \/ HookExec
    \/ HookErr

SpecHook == InitHook /\ [][HookNext]_vars

\* The place of a system call in the order the hook is to make them.
HookRank(name) ==
    CASE name = "unshare" -> 1
      [] name = "setrlimit" -> 2
      [] name = "setgid" -> 3
      [] name = "setuid" -> 4
      [] name = "cgroup.procs" -> 5

\* C31: the hook makes its calls in the order unshare, setrlimit, setgid
\* (if a gid is given), setuid (if a uid is given), attach to the job
\* cgroup; setgid always precedes setuid; and a child that reaches exec has
\* made all of them and is in the job cgroup's cgroup.procs.
C31_HookOrder ==
    call.op = "pre_exec" =>
        /\ \A i, j \in 1..Len(call.done) :
              i < j => HookRank(call.done[i]) < HookRank(call.done[j])
        /\ call.pc = "exec" =>
              /\ call.in_cgroup
              /\ {call.done[i] : i \in 1..Len(call.done)}
                   = {"unshare", "setrlimit", "cgroup.procs"}
                       \cup (IF IsSome(call.in.gid) THEN {"setgid"} ELSE {})
                       \cup (IF IsSome(call.in.uid) THEN {"setuid"} ELSE {})

\* A child given both ids that has reached exec.
C31_Witness ==
    /\ call.op = "pre_exec"
    /\ call.pc = "exec"
    /\ IsSome(call.in.gid)
    /\ IsSome(call.in.uid)

\* C32: when limits.gid and limits.uid name a non-root user and no system
\* call fails for an outside reason, spawn returns Ok, the command is
\* executed with that gid and uid, and the process is in the job cgroup.
C32_NonRootUserRuns ==
    ( /\ call.op = "pre_exec"
      /\ call.in.uid = Some(Nobody)
      /\ call.in.gid = Some(Nobody)
      /\ call.faults = {}
      /\ IsSome(call.out) )
        => /\ call.out = Some("Ok")
           /\ call.pc = "exec"
           /\ call.euid = Nobody
           /\ call.egid = Nobody
           /\ call.in_cgroup


(***************************************************************************)
(* LinuxSandbox::cleanup (turbo-box linux.rs 138-169), one step at a time, *)
(* beside the processes of the job cgroup.  call.exists: the job cgroup    *)
(* directory exists; call.running: its processes that run; call.dying:     *)
(* its processes that got SIGKILL and are not yet reaped; call.kill_file:  *)
(* the kernel offers cgroup.kill; call.done: what cleanup did.  The        *)
(* kernel's part: rmdir of a cgroup fails while it has a process, and a    *)
(* write of 1 to cgroup.kill sends SIGKILL to every process of the cgroup, *)
(* forks in progress included.                                             *)
(***************************************************************************)
MaxProcs == 4

CleanupFrame ==
    UNCHANGED <<queue, kv, inbox, hs, nextId, wk, tempDirs, cgroups, cache, trace,
                box, cacheTime, gc, manager>>

CleanupAt(pc) ==
    /\ call.op = "cleanup"
    /\ call.pc = pc

CleanupDid(what, pc) == [call EXCEPT !.done = Append(@, what), !.pc = pc]

\* if job_path.exists() (line 143).
CleanupExists ==
    /\ CleanupAt("exists")
    /\ call' = [call EXCEPT !.pc = IF call.exists THEN "rmdir" ELSE "return"]
    /\ CleanupFrame

\* Where cleanup goes after a failed remove_dir: to the kill after the
\* first (lines 149-158), to the end after the second (lines 162-164).
AfterRemoveFailed_Again(done) == "kill"

AfterRemoveFailed(done) ==
    IF \E i \in 1..Len(done) : done[i] = "rmdir_err" THEN "return" ELSE "kill"

\* fs::remove_dir(&job_path) (lines 149 and 162).
CleanupRemoveDir ==
    /\ CleanupAt("rmdir")
    /\ IF call.running + call.dying = 0
         THEN call' = [CleanupDid("rmdir_ok", "return") EXCEPT !.exists = FALSE]
         ELSE call' = CleanupDid("rmdir_err", AfterRemoveFailed(call.done))
    /\ CleanupFrame

\* if kill_file.exists() { let _ = write_cgroup_file(&kill_file, "1") }
\* (lines 156-159): the write may fail, and its result is dropped.
CleanupKill ==
    /\ CleanupAt("kill")
    /\ IF call.kill_file
         THEN \/ call' = [CleanupDid("kill", "sleep")
                            EXCEPT !.running = 0, !.dying = call.running + call.dying]
              \/ call' = CleanupDid("kill_err", "sleep")
         ELSE call' = [call EXCEPT !.pc = "sleep"]
    /\ CleanupFrame

\* tokio::time::sleep(50 ms) (line 161), then the second remove_dir.
CleanupSleep ==
    /\ CleanupAt("sleep")
    /\ call' = CleanupDid("sleep", "rmdir")
    /\ CleanupFrame

\* Ok(()) (line 168).
CleanupReturn ==
    /\ CleanupAt("return")
    /\ call' = [call EXCEPT !.pc = "done", !.out = Some("Ok")]
    /\ CleanupFrame

\* A process of the job cgroup forks.
ProcFork ==
    /\ call.op = "cleanup"
    /\ call.running > 0
    /\ call.running + call.dying < MaxProcs
    /\ call' = [call EXCEPT !.running = @ + 1]
    /\ CleanupFrame

\* A running process of the job cgroup exits.
ProcExit ==
    /\ call.op = "cleanup"
    /\ call.running > 0
    /\ call' = [call EXCEPT !.running = @ - 1]
    /\ CleanupFrame

\* A killed process of the job cgroup is gone.
ProcReaped ==
    /\ call.op = "cleanup"
    /\ call.dying > 0
    /\ call' = [call EXCEPT !.dying = @ - 1]
    /\ CleanupFrame

InitCleanup ==
    /\ InitNoTask
    /\ manager = ManagerIdle
    /\ \E exists \in BOOLEAN, running \in 0..MaxProcs, kill_file \in BOOLEAN :
         /\ running > 0 => exists
         /\ call = [op |-> "cleanup", in |-> [exists |-> exists], pc |-> "exists",
                    exists |-> exists, running |-> running, dying |-> 0,
                    kill_file |-> kill_file, done |-> <<>>, out |-> None]

CleanupNext ==
    \/ CleanupExists
    \/ CleanupRemoveDir
    \/ CleanupKill
    \/ CleanupSleep
    \/ CleanupReturn
    \/ ProcFork
    \/ ProcExit
    \/ ProcReaped

SpecCleanup == InitCleanup /\ [][CleanupNext]_vars

\* What a cleanup that found the job cgroup may have done when it returns.
CleanupRuns ==
    {<<"rmdir_ok">>}
      \cup {<<"rmdir_err">> \o k \o <<"sleep", r>> :
              k \in {<<>>, <<"kill">>, <<"kill_err">>}, r \in {"rmdir_ok", "rmdir_err"}}

BatchIds == {"1", "2", "a b"}

BatchTestcases == [id : BatchIds, input : {"x", "y"}, expected_output : {None}]

\* temp_dir.join(format!("input_{}.txt", tc.id)) (line 191).
InputFile(id) == "input_" \o id \o ".txt"

\* The file sh opens for "cd <tmp> && <run.sh> < <input_file>" (lines
\* 194-199): the path is put into the command line unquoted, so sh takes
\* the word up to the first blank as the target of the redirection.
RedirectTarget(id) == IF id = "a b" THEN "input_a" ELSE InputFile(id)

BatchFrame ==
    UNCHANGED <<queue, kv, inbox, hs, nextId, wk, tempDirs, cgroups, cache, trace,
                box, cacheTime, gc, manager>>

BatchAt(pc) ==
    /\ call.op = "batch"
    /\ call.pc = pc

\* let _ = fs::write(&input_file, &tc.input) (lines 191-192): the file is
\* written, or the write fails and the loop goes on.
BatchWriteInput ==
    /\ BatchAt("write")
    /\ LET tc == NextTestcase(call.in.testcases, call.results)
       IN \/ call' = [call EXCEPT !.pc = "run",
                                  !.dir = WriteFile(@, File(InputFile(tc.id), tc.input))]
          \/ call' = [call EXCEPT !.pc = "run"]
    /\ BatchFrame

\* What sandbox.run of the testcase's command line gives: Err; or, with
\* the input file missing, the failure of sh, which has not started
\* run.sh; or the result of run.sh reading the file.
BatchRunOutcomes(dir, id) ==
    {[stage_res |-> SandboxErrorResult, stdin |-> None]}
      \cup (IF \E f \in dir : f.name = RedirectTarget(id)
              THEN {[stage_res |-> r,
                     stdin |-> Some((CHOOSE f \in dir : f.name = RedirectTarget(id)).content)] :
                        r \in SandboxOk}
              ELSE {[stage_res |-> ExitResult("exit1", "", "err"), stdin |-> None]})

\* sandbox.run and the push of the TestcaseResult (lines 215-238).
BatchRun ==
    /\ BatchAt("run")
    /\ LET tcs == call.in.testcases
           tc == NextTestcase(tcs, call.results)
       IN \E o \in BatchRunOutcomes(call.dir, tc.id) :
            LET tr == TestcaseResult(tc.id, Passed(tc, o.stage_res),
                                     o.stage_res.stdout, o.stage_res)
                all == Append(call.results, tr)
            IN call' = [call EXCEPT !.results = all,
                                    !.stdin_of = Append(@, o.stdin),
                                    !.pc = IF Len(all) = Len(tcs) THEN "finish" ELSE "write"]
    /\ BatchFrame

\* The fields run and testcases of the JobResult (lines 272-282).
BatchFinish ==
    /\ BatchAt("finish")
    /\ call' = [call EXCEPT !.pc = "done",
                            !.out = Some([run |-> None,
                                          testcases |-> TestcasesField(call.results)])]
    /\ BatchFrame

InitBatch ==
    /\ InitNoTask
    /\ manager = ManagerIdle
    /\ \E tcs \in SeqsUpTo(BatchTestcases, MaxTestcases), stdin \in {None, Some("z")} :
         call = [op |-> "batch", in |-> [testcases |-> tcs, stdin |-> stdin],
                 pc |-> IF tcs = <<>> THEN "finish" ELSE "write",
                 dir |-> {File("main", "src")}, results |-> <<>>, stdin_of |-> <<>>,
                 out |-> None]

BatchNext ==
    \/ BatchWriteInput
    \/ BatchRun
    \/ BatchFinish

SpecBatch == InitBatch /\ [][BatchNext]_vars

\* C34: in batch mode the result's testcases hold exactly one
\* TestcaseResult per request testcase, in request order and with the same
\* ids (none for an empty list); every testcase whose sandbox.run did not
\* return an error was run with its own input on standard input, whatever
\* became of the testcases before it, never with the request's stdin; and
\* run is null.
C34_BatchRunsEveryTestcase ==
    (call.op = "batch" /\ call.pc = "done") =>
        LET tcs == call.in.testcases
            out == Unwrap(call.out)
            list == IF IsSome(out.testcases) THEN Unwrap(out.testcases) ELSE <<>>
        IN /\ out.run = None
           /\ Len(list) = Len(tcs)
           /\ \A i \in 1..Len(list) :
                 /\ list[i].id = tcs[i].id
                 /\ list[i].run_details # SandboxErrorResult
                       => call.stdin_of[i] = Some(tcs[i].input)


\* C35: on a cache hit whose restore succeeded the compile script is not
\* executed: no sandbox.run is issued for the compile stage, before or
\* after the restore; the compile result is Success with stdout "Restored
\* from cache" and empty stderr; the entry is not stored again; and the
\* job goes on to the run stage, so that its result, unless run.sh is
\* missing, carries that compile result.
C35_HitSkipsCompile ==
    /\ \A j \in JobIds :
         Has(j, "restore") =>
            /\ ~Has(j, "run_compile")
            /\ ~Has(j, "store_begin")
            /\ ~Has(j, "store")
            /\ IsSome(kv[j]) =>
                  \/ Unwrap(kv[j]).compile = Some(RestoredResult)
                  \/ Has(j, "err_norun")
    /\ \A w \in Workers :
         (IsSome(wk[w].job) /\ Has(JobOf(w).id, "restore")) =>
            /\ wk[w].compile_result = Some(RestoredResult)
            /\ RestoredResult.status = "Success"
            /\ RestoredResult.stdout = "Restored from cache"
            /\ RestoredResult.stderr = ""
            /\ wk[w].pc \in {"runcheck", "single", "batch", "blocked", "finish",
                              "publish", "setex", "pop"}

\* A job restored from the cache that ran and was published.
C35_Witness ==
    \E j \in JobIds :
        /\ Has(j, "restore")
        /\ Has(j, "run_single")
        /\ IsSome(kv[j])
        /\ Unwrap(kv[j]).compile = Some(RestoredResult)


\* Worker w leaves the restore, or the store, with this step.
LeavesRestore(w) ==
    /\ wk[w].pc \in {"restore_open", "restore_link"}
    /\ wk'[w].pc \notin {"restore_open", "restore_link"}

LeavesStore(w) ==
    /\ wk[w].pc \in {"store_open", "store_copy"}
    /\ wk'[w].pc \notin {"store_open", "store_copy"}

\* C36: cache I/O failures never fail a job.  A restore that ends without
\* the entry restored leaves no result and goes to the real compile, whose
\* sandbox.run is then issued and whose result is the job's compile
\* result; and the store, failed or not, ends in the same state of the
\* job (locals, working directory, no result yet, on to the run stage), so
\* that the JobResult is the same either way.
C36_CacheFailuresTolerated ==
    [][\A w \in Workers :
         /\ LeavesRestore(w) =>
               \/ /\ Has(JobOf(w).id, "restore")'
                  /\ wk'[w].compile_result = Some(RestoredResult)
               \/ /\ wk'[w].pc = "compile"
                  /\ wk'[w].compile_result = None
                  /\ wk'[w].result = None
         /\ (wk[w].pc = "compile" /\ wk'[w].pc \notin {"compile", "blocked"}) =>
               /\ Has(JobOf(w).id, "run_compile")'
               /\ \/ Has(JobOf(w).id, "err_compile_run")'
                  \/ /\ IsSome(wk'[w].compile_result)
                     /\ \E r \in SandboxOk :
                          Unwrap(wk'[w].compile_result) =
                              IF r.status = "Success" THEN r ELSE CompileFailed(r)
         /\ LeavesStore(w) =>
               /\ wk'[w].pc = "runcheck"
               /\ wk'[w].result = None
               /\ wk'[w].compile_result = wk[w].compile_result
               /\ IsSome(wk'[w].compile_result)
               /\ Unwrap(wk'[w].compile_result).status = "Success"
               /\ wk'[w].todo = {}
               /\ tempDirs' = tempDirs
      ]_vars

\* A job whose restore failed and whose store failed too has run and is
\* published with the real compile's result.
C36_Witness ==
    \E j \in JobIds :
        /\ Has(j, "run_compile")
        /\ Has(j, "store_begin")
        /\ ~Has(j, "store")
        /\ Has(j, "run_single")
        /\ IsSome(kv[j])
        /\ IsSome(Unwrap(kv[j]).compile)
        /\ Unwrap(Unwrap(kv[j]).compile).status = "Success"
        /\ Unwrap(Unwrap(kv[j]).compile) # RestoredResult


(***************************************************************************)
(* SpecEvict: fs::remove_dir_all of run_gc_pass (gc.rs 52-56) on an entry  *)
(* of the workers' cache root, beside one worker whose jobs hit that       *)
(* entry.  CACHE_DIR and the workers' root are different paths (see        *)
(* above), so this is the GC of a deployment in which the first resolves   *)
(* to the second (a symbolic link /tmp/turbo-cache to the workers' root).  *)
(* remove_dir_all lists the entry, unlinks its files one by one and then   *)
(* removes the directory.  gc.pending: the key of the entry; gc.todo: the  *)
(* files listed and not yet unlinked.                                      *)
(***************************************************************************)
EvictFrame ==
    UNCHANGED <<queue, kv, inbox, hs, nextId, wk, tempDirs, cgroups, trace, box,
                call, manager>>

EvictKey == Head(gc.pending)

\* remove_dir_all: read_dir of the entry; an entry that is gone is an
\* error, which run_gc_pass logs.
EvictOpen ==
    /\ gc.pc = "evict_open"
    /\ gc' = IF IsSome(cache[EvictKey])
               THEN [gc EXCEPT !.pc = "evict", !.todo = FileNames(Unwrap(cache[EvictKey]))]
               ELSE [gc EXCEPT !.pc = "done"]
    /\ UNCHANGED <<cache, cacheTime>>
    /\ EvictFrame

\* remove_dir_all: unlink of one of the files listed.
EvictFile ==
    /\ gc.pc = "evict"
    /\ \E f \in gc.todo :
         /\ gc' = [gc EXCEPT !.todo = @ \ {f}]
         /\ IF IsSome(cache[EvictKey]) /\ f \in FileNames(Unwrap(cache[EvictKey]))
              THEN /\ cache' = [cache EXCEPT ![EvictKey] =
                                  Some({g \in Unwrap(@) : g.name # f})]
                   /\ cacheTime' = Modified(cacheTime, EvictKey)
              ELSE UNCHANGED <<cache, cacheTime>>
    /\ EvictFrame

\* remove_dir_all: rmdir of the entry, which fails on a directory that has
\* got files again; run_gc_pass logs the error.
EvictDir ==
    /\ gc.pc = "evict"
    /\ gc.todo = {}
    /\ gc' = [gc EXCEPT !.pc = "done"]
    /\ cache' = IF cache[EvictKey] = Some({})
                  THEN [cache EXCEPT ![EvictKey] = None]
                  ELSE cache
    /\ UNCHANGED cacheTime
    /\ EvictFrame

InitEvict ==
    /\ inbox = [h \in Handlers |-> <<>>]
    /\ kv = [i \in JobIds |-> None]
    /\ wk = [w \in Workers |-> WorkerIdle]
    /\ tempDirs = [i \in JobIds |-> None]
    /\ cgroups = {}
    /\ trace = [i \in JobIds |-> <<>>]
    /\ box = BoxIdle
    /\ call = CallIdle
    /\ manager = ManagerIdle
    /\ QueuedBy([i \in 1..MaxJobs |-> CacheRequest])
    /\ cache = [k \in CacheKeys |->
                  IF k = calculate_job_hash(CacheRequest)
                    THEN Some(WriteFile(CompiledTree(CacheRequest), TouchFile))
                    ELSE None]
    /\ cacheTime = [NoCacheTime EXCEPT !.clock = 1,
                                       !.dir[calculate_job_hash(CacheRequest)] = 1]
    /\ gc = [pc |-> "evict_open", root |-> {}, todo |-> {},
             pending |-> <<calculate_job_hash(CacheRequest)>>]

EvictNext ==
    \/ EvictOpen
    \/ EvictFile
    \/ EvictDir
    \/ CacheStep(JobWorker)

SpecEvict == InitEvict /\ [][EvictNext]_vars

SharesFile(w, f) ==
    /\ wk[w].compile_result = Some(RestoredResult)
    /\ IsSome(wk[w].cache_path)
    /\ IsSome(cache[Unwrap(wk[w].cache_path)])
    /\ f \in FileNames(Unwrap(cache[Unwrap(wk[w].cache_path)]))
    /\ f \notin FileNames(SourceFiles(ReqOf(w)))

\* What the submitted code writes.
Scribble == "scribble"

\* The command of the run stage (the sh of worker.rs 263-264, which runs
\* run.sh and the submitted program in the working directory) opens a file
\* there and overwrites its content.
RunWritesInPlace(w) ==
    /\ wk[w].pc = "single"
    /\ LET id == JobOf(w).id
           key == Unwrap(wk[w].cache_path)
       IN \E f \in FileNames(Unwrap(tempDirs[id])) :
            /\ FileAt(Unwrap(tempDirs[id]), f).content # Scribble
            /\ tempDirs' = [tempDirs EXCEPT ![id] = Some(WriteFile(Unwrap(@), File(f, Scribble)))]
            /\ cache' = IF SharesFile(w, f)
                          THEN [cache EXCEPT ![key] = Some(WriteFile(Unwrap(@), File(f, Scribble)))]
                          ELSE cache
    /\ UNCHANGED <<queue, kv, inbox, hs, nextId, wk, cgroups, trace, box, cacheTime,
                   gc, call, manager>>

ShareNext ==
    \/ CacheStep(JobWorker)
    \/ RunWritesInPlace(JobWorker)

SpecShare == InitCache /\ [][ShareNext]_vars

\* C38: a cache entry is immutable once stored: from the end of its store
\* (its .touch marker is there) no step of a job, its restore, its run
\* stage and what the submitted code writes in its working directory
\* included, changes the files of the entry.
C38_EntriesImmutable ==
    [][\A k \in CacheKeys :
         (IsSome(cache[k]) /\ TouchFile \in Unwrap(cache[k])) => cache'[k] = cache[k]
      ]_vars


\* The files of a request as the compile sees them: name and content.
NamedContents(req) ==
    {<<FileName(req.files[i]), req.files[i].content>> : i \in 1..Len(req.files)}

\* C39: the cache key's preimage is injective: two requests that differ in
\* language, version, compile script or in the names or contents of their
\* files never get the same key.
C39_PreimageInjective ==
    (call.op = "hash_preimage" /\ IsSome(call.out)) =>
        LET r1 == call.in[1]
            r2 == call.in[2]
        IN Unwrap(call.out)[1] = Unwrap(call.out)[2] =>
             /\ r1.language = r2.language
             /\ VersionOrLatest(r1) = VersionOrLatest(r2)
             /\ CompileScriptContent(r1.language) = CompileScriptContent(r2.language)
             /\ NamedContents(r1) = NamedContents(r2)


\* C40: stage isolation inside a job: when sandbox.run has returned
\* through the child-exited branch, no process started during the stage is
\* still alive in the job cgroup, so that the next stage or testcase of
\* the job does not run beside a descendant the stage left.
C40_StageLeavesNoProcess ==
    (/\ box.pc = "returned"
     /\ Unwrap(box.result).status # "TimeLimitExceeded")
    => box.desc # "alive"

====
